---- MODULE Spec2Model ----
(***************************************************************************)
(* Token list of frontend/src/components/TokenEventsList.tsx: the          *)
(* filter / sort / truncate memo (filteredTokens) driven by the FilterState *)
(* signal and by props.tokens.                                             *)
(*                                                                         *)
(* Strings are tuples of one-character strings, so that toLowerCase,       *)
(* includes, endsWith and replace are computed and not assumed.            *)
(* Numbers (age in hours, liquidity, holder counts) are naturals; a        *)
(* liquidity-holder percent p is kept in hundredths, so that the value of  *)
(* Number(p) * 100 is the stored natural.                                  *)
(*                                                                         *)
(* Around the memo: the History Cache and the Trend Store filled by the    *)
(* visibility effect and fetchTokenHistory (calculateTrend computed as an  *)
(* exact rational), the measured row heights, the expansion set, the       *)
(* scroll offset and the callbacks deferred to the next paint.  The        *)
(* virtualizer is a library: the rows it reports are a run of consecutive  *)
(* indices chosen by the environment.                                      *)
(*                                                                         *)
(* The persisted filter blob is kept as the JSON texts of its members,     *)
(* written by JSON.stringify and read back by JSON.parse.  The view can be *)
(* torn down; its ResizeObserver and its window resize listener are        *)
(* registrations of their own.  The props-driven variant of the list       *)
(* (part_000) with the status bar (part_001) has a specification of its    *)
(* own.                                                                    *)
(***************************************************************************)
EXTENDS Integers, Sequences, FiniteSets, TLC

VARIABLES
  tokens,          \* props.tokens
  filters,         \* the filters signal
  finalResult,     \* value of the filteredTokens memo
  expandedTokens,  \* the expandedTokens signal: a set of token addresses
  measuredHeights, \* the measuredHeights signal: index -> height
  scrollTop,       \* scrollContainerRef.scrollTop
  viewportRows,    \* how many rows the scroll container shows (layout)
  virtualItems,    \* indices of virtualizer().getVirtualItems()
  itemSizes,       \* the sizes the virtualizer holds: index -> height
  storedHistories, \* localStorage item 'tokenHistoryCache'
  now,             \* Date.now() when the component was constructed
  tokenHistories,  \* the tokenHistories signal: address -> history
  tokenTrends,     \* the tokenTrends signal: address -> trends
  pending,         \* fetches in flight: address -> how many
  issued,          \* addresses fetchTokenHistory was called for in the last step
  settled,         \* the fetch the last step settled, with its response
  failed,          \* addresses a fetch has failed for
  rafQueue,        \* callbacks passed to requestAnimationFrame, not yet run
  storedFilters,   \* localStorage item 'tokenListFilters'
  rendered,        \* the list view is rendered: constructed and not torn down
  observing,       \* the ResizeObserver of the last run of its effect is connected
  listening,       \* handleResize is registered as a window 'resize' listener
  stats            \* the arguments of the last call of props.onStatsChange

vars == <<tokens, filters, finalResult, expandedTokens, measuredHeights, scrollTop,
          viewportRows, virtualItems, itemSizes, storedHistories, now, tokenHistories,
          tokenTrends, pending, issued, settled, failed, rafQueue, storedFilters,
          rendered, observing, listening, stats>>

\* whether the component is rendered, and its registrations
registrations == <<rendered, observing, listening>>

----------------------------------------------------------------------------
(* Bounds of the model *)

\* longest props.tokens collection
MaxTokens == 2
\* the non-zero value typed into the "min holders" / "min liquidity" inputs
MinThreshold == 2
\* largest small maxRecords of a persisted filter blob (besides the default)
MaxRecordsBound == 2
\* most fetches in flight for one token address
MaxInFlight == 2
\* longest history of a fetch response
MaxSamples == 6
\* largest whole liquidity / holder count of a history sample
MaxMetric == 2
\* longest history whose samples take every metric value
MaxShort == 4
\* longest history that is checked in every rearrangement
MaxPermuted == 3
\* largest scroll offset
MaxScroll == 1
\* most callbacks waiting for the next paint
MaxCallbacks == 2

----------------------------------------------------------------------------
(* Program constants *)

\* maxRecords of the default FilterState
DefaultMaxRecords == 50
\* if (totalLocked < 90) return false
LockThreshold == 90
\* const threshold = 0.05, in hundredths
ThresholdHundredths == 5
\* const COLLAPSED_HEIGHT = 42
COLLAPSED_HEIGHT == 42
\* const EXPANDED_HEIGHT = 800
EXPANDED_HEIGHT == 800
\* const HISTORY_CACHE_EXPIRY = 5 * 60 * 1000
HISTORY_CACHE_EXPIRY == 300000

ZeroAddress == <<"0", "x", "0">>

----------------------------------------------------------------------------
(* Strings *)

LowerOf == ("A" :> "a") @@ ("B" :> "b") @@ ("L" :> "l") @@ ("P" :> "p") @@ ("X" :> "x")

\* String.prototype.toLowerCase
toLowerCase(s) == [i \in DOMAIN s |-> IF s[i] \in DOMAIN LowerOf THEN LowerOf[s[i]] ELSE s[i]]

\* first index at which pat occurs in s, 0 if none (pat non-empty or empty)
IndexOf(s, pat) ==
  LET hits == {i \in 1..(Len(s) - Len(pat) + 1) : SubSeq(s, i, i + Len(pat) - 1) = pat}
  IN IF hits = {} THEN 0 ELSE CHOOSE i \in hits : \A j \in hits : i <= j

\* String.prototype.includes
includes(s, pat) == IndexOf(s, pat) # 0

\* String.prototype.endsWith
endsWith(s, suffix) ==
  /\ Len(suffix) <= Len(s)
  /\ SubSeq(s, Len(s) - Len(suffix) + 1, Len(s)) = suffix

\* String.prototype.replace with a string pattern: the first occurrence only
replace(s, pat, rep) ==
  LET i == IndexOf(s, pat)
  IN IF i = 0 THEN s
     ELSE SubSeq(s, 1, i - 1) \o rep \o SubSeq(s, i + Len(pat), Len(s))

ASC == <<"_", "a", "s", "c">>
S_age == <<"a", "g", "e">>
S_holders == <<"h", "o", "l", "d", "e", "r", "s">>
S_liquidity == <<"l", "i", "q", "u", "i", "d", "i", "t", "y">>
S_safetyScore == <<"s", "a", "f", "e", "t", "y", "S", "c", "o", "r", "e">>
\* a sortBy that names no field of the comparator
S_name == <<"n", "a", "m", "e">>

----------------------------------------------------------------------------
(* Tokens *)

\* a liquidity-holder record of a parsed gpLpHolders list
Holder(locked, pct) == [is_locked |-> locked, percent |-> pct]

\* gpLpHolders: undefined / empty, text that is no JSON, JSON that is no
\* array, or the JSON text of an array of holder records
LpAbsent == [kind |-> "absent", holders |-> <<>>]
LpGarbage == [kind |-> "garbage", holders |-> <<>>]
LpNonList == [kind |-> "nonlist", holders |-> <<>>]
LpList(hs) == [kind |-> "list", holders |-> hs]

Token(addr, name, symbol, age, holderCount, liquidity, honeypot, risk, owner, lp) ==
  [tokenAddress |-> addr, tokenName |-> name, tokenSymbol |-> symbol,
   tokenAgeHours |-> age, gpHolderCount |-> holderCount,
   hpLiquidityAmount |-> liquidity, hpIsHoneypot |-> honeypot,
   riskLevel |-> risk, gpOwnerAddress |-> owner, gpLpHolders |-> lp]

NonZeroAddress == <<"0", "x", "9">>

T1 == Token(<<"0", "x", "1">>, <<"A", "b">>, <<"A", "L">>, 1, MinThreshold, MinThreshold,
            FALSE, "safe", ZeroAddress, LpList(<<Holder(TRUE, LockThreshold)>>))
T2 == Token(<<"0", "x", "2">>, <<"P", "p">>, <<"X", "A", "B">>, 3, MinThreshold - 1,
            MinThreshold + 1, TRUE, "danger", NonZeroAddress, LpGarbage)
T3 == Token(<<"0", "x", "A", "B">>, <<"P", "l">>, <<"P", "X">>, 2, MinThreshold + 1,
            MinThreshold - 1, FALSE, "warning", ZeroAddress, LpAbsent)
T4 == Token(<<"0", "x", "4">>, <<"L", "A", "B">>, <<"L", "L">>, 2, MinThreshold + 1,
            MinThreshold + 1, FALSE, "danger", ZeroAddress, LpNonList)
T5 == Token(<<"0", "x", "5">>, <<"L", "p">>, <<"L", "P">>, 1, MinThreshold, MinThreshold,
            TRUE, "safe", ZeroAddress,
            LpList(<<Holder(TRUE, 50), Holder(FALSE, 30), Holder(TRUE, 45)>>))
T6 == Token(<<"0", "x", "6">>, <<"P", "b">>, <<"B", "P">>, 3, MinThreshold - 1,
            MinThreshold - 1, FALSE, "safe", NonZeroAddress,
            LpList(<<Holder(TRUE, 60), Holder(FALSE, 40)>>))

TokenPool == {T1, T2, T3, T4, T5, T6}

\* props.tokens: collections of at most MaxTokens tokens, the address a unique key
TokenSeqs ==
  UNION {{s \in [1..n -> TokenPool] : \A i, j \in 1..n : i # j => s[i] # s[j]} : n \in 0..MaxTokens}

----------------------------------------------------------------------------
(* FilterState *)

DefaultFilters ==
  [minHolders |-> 0, minLiquidity |-> 0,
   hideHoneypots |-> FALSE, showOnlyHoneypots |-> FALSE,
   hideDanger |-> FALSE, hideWarning |-> FALSE, showOnlySafe |-> FALSE,
   hideNotRenounced |-> FALSE, hideUnlockedLiquidity |-> FALSE,
   searchQuery |-> <<>>, sortBy |-> S_age, maxRecords |-> DefaultMaxRecords]

\* JSON texts of the member values of a FilterState: a number is written in
\* decimal digits, a boolean as true or false, a string between quotes with
\* quote and backslash escaped
Digits == <<"0", "1", "2", "3", "4", "5", "6", "7", "8", "9">>

RECURSIVE numberText(_)
numberText(n) ==
  IF n < 10 THEN <<Digits[n + 1]>>
  ELSE Append(numberText(n \div 10), Digits[(n % 10) + 1])

RECURSIVE textNumber(_)
textNumber(text) ==
  IF text = <<>> THEN 0
  ELSE 10 * textNumber(SubSeq(text, 1, Len(text) - 1))
       + (CHOOSE d \in 0..9 : Digits[d + 1] = text[Len(text)])

RECURSIVE escaped(_)
escaped(s) ==
  IF s = <<>> THEN <<>>
  ELSE (IF Head(s) \in {"\"", "\\"} THEN <<"\\", Head(s)>> ELSE <<Head(s)>>) \o escaped(Tail(s))

RECURSIVE unescaped(_)
unescaped(s) ==
  IF s = <<>> THEN <<>>
  ELSE IF Head(s) = "\\" THEN <<s[2]>> \o unescaped(Tail(Tail(s)))
  ELSE <<Head(s)>> \o unescaped(Tail(s))

\* the JSON text of a string member and of a boolean member (the literal
\* true or false, one token)
stringText(value) == <<"\"">> \o escaped(value) \o <<"\"">>
booleanText(value) == IF value THEN <<"true">> ELSE <<"false">>

\* the value of the JSON text of one member
memberValue(text) ==
  IF Head(text) = "\"" THEN unescaped(SubSeq(text, 2, Len(text) - 1))
  ELSE IF text = <<"true">> THEN TRUE
  ELSE IF text = <<"false">> THEN FALSE
  ELSE textNumber(text)

\* JSON.stringify of a FilterState, member by member; JSON.parse of a text
\* of members
JSONstringify(f) ==
  [minHolders |-> numberText(f.minHolders),
   minLiquidity |-> numberText(f.minLiquidity),
   hideHoneypots |-> booleanText(f.hideHoneypots),
   showOnlyHoneypots |-> booleanText(f.showOnlyHoneypots),
   hideDanger |-> booleanText(f.hideDanger),
   hideWarning |-> booleanText(f.hideWarning),
   showOnlySafe |-> booleanText(f.showOnlySafe),
   hideNotRenounced |-> booleanText(f.hideNotRenounced),
   hideUnlockedLiquidity |-> booleanText(f.hideUnlockedLiquidity),
   searchQuery |-> stringText(f.searchQuery),
   sortBy |-> stringText(f.sortBy),
   maxRecords |-> numberText(f.maxRecords)]
JSONparse(text) == [key \in DOMAIN text |-> memberValue(text[key])]

\* the value of the JSON text null
Null == [null |-> TRUE]

\* localStorage item 'tokenListFilters': absent, text that is no JSON, the
\* JSON text of a FilterState, or the JSON text null
NoItem == [kind |-> "none", text |-> <<>>]
MalformedItem == [kind |-> "malformed", text |-> <<>>]
JsonItem(f) == [kind |-> "json", text |-> JSONstringify(f)]
NullItem == [kind |-> "null", text |-> <<>>]

\* the item is null: the defaults; JSON.parse throws: the defaults; else
\* what JSON.parse returns
getSavedFilters(saved) ==
  IF saved.kind = "json" THEN JSONparse(saved.text)
  ELSE IF saved.kind = "null" THEN Null
  ELSE DefaultFilters

----------------------------------------------------------------------------
(* filteredTokens: the filter predicate *)

\* variant: the second honeypot test only reached when the first is off
honeypotRejects_elseIf(token, currentFilters) ==
  IF currentFilters.hideHoneypots THEN token.hpIsHoneypot
  ELSE currentFilters.showOnlyHoneypots /\ ~token.hpIsHoneypot

\* if (hideHoneypots && hpIsHoneypot) return false;
\* if (showOnlyHoneypots && !hpIsHoneypot) return false;
honeypotRejects(token, currentFilters) ==
  \/ currentFilters.hideHoneypots /\ token.hpIsHoneypot
  \/ currentFilters.showOnlyHoneypots /\ ~token.hpIsHoneypot

riskRejects(token, currentFilters) ==
  \/ currentFilters.hideDanger /\ token.riskLevel = "danger"
  \/ currentFilters.hideWarning /\ token.riskLevel = "warning"
  \/ currentFilters.showOnlySafe /\ token.riskLevel # "safe"

notRenouncedRejects(token, currentFilters) ==
  currentFilters.hideNotRenounced /\ token.gpOwnerAddress # ZeroAddress

\* lpHolders.reduce((acc, holder) => acc + (holder.is_locked ? Number(holder.percent) * 100 : 0), 0)
RECURSIVE reduceLocked(_, _)
reduceLocked(lpHolders, acc) ==
  IF lpHolders = <<>> THEN acc
  ELSE reduceLocked(Tail(lpHolders),
                    acc + (IF Head(lpHolders).is_locked THEN Head(lpHolders).percent ELSE 0))

\* variant: a sum of exactly 90 rejected
belowLockThreshold_inclusive(totalLocked) == totalLocked <= LockThreshold

\* if (totalLocked < 90) return false;
belowLockThreshold(totalLocked) == totalLocked < LockThreshold

\* the try block of the hideUnlockedLiquidity rule: "throw" when JSON.parse
\* raises (text that is no JSON) or reduce is no function of the parsed value
\* (JSON that is no array), otherwise whether the token is rejected
lockTry(token) ==
  LET text == IF token.gpLpHolders.kind = "absent" THEN LpList(<<>>) ELSE token.gpLpHolders
  IN IF text.kind = "garbage" THEN "throw"
     ELSE IF text.kind = "nonlist" THEN "throw"
     ELSE IF belowLockThreshold(reduceLocked(text.holders, 0)) THEN "reject"
     ELSE "pass"

\* try { ... } catch { return false; }
unlockedLiquidityRejects(token, currentFilters) ==
  currentFilters.hideUnlockedLiquidity /\ lockTry(token) \in {"throw", "reject"}

\* variant: a token exactly at the threshold rejected
minHoldersRejects_atThreshold(token, currentFilters) ==
  currentFilters.minHolders > 0 /\ token.gpHolderCount <= currentFilters.minHolders

minHoldersRejects(token, currentFilters) ==
  currentFilters.minHolders > 0 /\ token.gpHolderCount < currentFilters.minHolders

minLiquidityRejects(token, currentFilters) ==
  currentFilters.minLiquidity > 0 /\ token.hpLiquidityAmount < currentFilters.minLiquidity

\* const matches = name.includes(query) || symbol.includes(query) || address.includes(query)
searchMatches(token, searchQuery) ==
  LET query == toLowerCase(searchQuery)
  IN \/ includes(toLowerCase(token.tokenName), query)
     \/ includes(toLowerCase(token.tokenSymbol), query)
     \/ includes(toLowerCase(token.tokenAddress), query)

\* variant: the search query tested first, a match accepted at once
filterPredicate_searchFirst(token, currentFilters) ==
  IF currentFilters.searchQuery # <<>> /\ searchMatches(token, currentFilters.searchQuery)
  THEN TRUE
  ELSE IF honeypotRejects(token, currentFilters) THEN FALSE
  ELSE IF riskRejects(token, currentFilters) THEN FALSE
  ELSE IF notRenouncedRejects(token, currentFilters) THEN FALSE
  ELSE IF unlockedLiquidityRejects(token, currentFilters) THEN FALSE
  ELSE IF minHoldersRejects(token, currentFilters) THEN FALSE
  ELSE IF minLiquidityRejects(token, currentFilters) THEN FALSE
  ELSE currentFilters.searchQuery = <<>>

\* the callback of result.filter: the tests in the order of the source, the
\* search query last, where it returns its verdict
filterPredicate(token, currentFilters) ==
  IF honeypotRejects(token, currentFilters) THEN FALSE
  ELSE IF riskRejects(token, currentFilters) THEN FALSE
  ELSE IF notRenouncedRejects(token, currentFilters) THEN FALSE
  ELSE IF unlockedLiquidityRejects(token, currentFilters) THEN FALSE
  ELSE IF minHoldersRejects(token, currentFilters) THEN FALSE
  ELSE IF minLiquidityRejects(token, currentFilters) THEN FALSE
  ELSE IF currentFilters.searchQuery # <<>>
       THEN searchMatches(token, currentFilters.searchQuery)
  ELSE TRUE

\* Array.prototype.filter
arrayFilter(result, currentFilters) ==
  LET Keep(token) == filterPredicate(token, currentFilters)
  IN SelectSeq(result, Keep)

----------------------------------------------------------------------------
(* filteredTokens: the sort comparator *)

getRiskScore(token) ==
  CASE token.riskLevel = "safe" -> 2
    [] token.riskLevel = "warning" -> 1
    [] token.riskLevel = "danger" -> 0
    [] OTHER -> 0

\* direction: -1 unless sortBy ends with '_asc'
sortDirection(sortBy) == IF endsWith(sortBy, ASC) THEN 1 ELSE -1

\* field: sortBy without its first '_asc' when it ends with '_asc', else sortBy
sortField(sortBy) == IF endsWith(sortBy, ASC) THEN replace(sortBy, ASC, <<>>) ELSE sortBy

\* variant: the operands of the age comparison in the order of the other fields
ageCompare_swapped(a, b, direction) == (a.tokenAgeHours - b.tokenAgeHours) * direction

ageCompare(a, b, direction) == (b.tokenAgeHours - a.tokenAgeHours) * direction

\* variant: the operands of the holders comparison swapped
holdersCompare_swapped(a, b, direction) == (b.gpHolderCount - a.gpHolderCount) * direction

holdersCompare(a, b, direction) == (a.gpHolderCount - b.gpHolderCount) * direction

liquidityCompare(a, b, direction) == (a.hpLiquidityAmount - b.hpLiquidityAmount) * direction

safetyScoreCompare(a, b, direction) == (getRiskScore(a) - getRiskScore(b)) * direction

\* switch (field) { ... default: return 0; }
compareFn(a, b, sortBy) ==
  LET direction == sortDirection(sortBy)
      field == sortField(sortBy)
  IN CASE field = S_age -> ageCompare(a, b, direction)
       [] field = S_holders -> holdersCompare(a, b, direction)
       [] field = S_liquidity -> liquidityCompare(a, b, direction)
       [] field = S_safetyScore -> safetyScoreCompare(a, b, direction)
       [] OTHER -> 0

\* variant: an unstable sort, x put in front of the elements it ties with
insertAt_unstable(sorted, x, sortBy) ==
  LET less == {i \in DOMAIN sorted : compareFn(sorted[i], x, sortBy) < 0}
      k == IF less = {} THEN 0 ELSE CHOOSE i \in less : \A j \in less : j <= i
  IN SubSeq(sorted, 1, k) \o <<x>> \o SubSeq(sorted, k + 1, Len(sorted))

\* where a stable sort puts x into sorted: behind the last element that does
\* not compare greater than x
insertAt(sorted, x, sortBy) ==
  LET notGreater == {i \in DOMAIN sorted : compareFn(sorted[i], x, sortBy) <= 0}
      k == IF notGreater = {} THEN 0 ELSE CHOOSE i \in notGreater : \A j \in notGreater : j <= i
  IN SubSeq(sorted, 1, k) \o <<x>> \o SubSeq(sorted, k + 1, Len(sorted))

\* Array.prototype.sort (stable since ES2019) with the comparator
RECURSIVE arraySort(_, _)
arraySort(result, sortBy) ==
  IF result = <<>> THEN <<>>
  ELSE insertAt(arraySort(SubSeq(result, 1, Len(result) - 1), sortBy),
                result[Len(result)], sortBy)

\* variant: one entry too many
slice_offByOne(result, end) ==
  SubSeq(result, 1, IF end + 1 < Len(result) THEN end + 1 ELSE Len(result))

\* Array.prototype.slice(0, end) for end >= 0
slice(result, end) == SubSeq(result, 1, IF end < Len(result) THEN end ELSE Len(result))

\* variant: truncated before sorting
filteredTokens_sliceFirst(propsTokens, currentFilters) ==
  arraySort(slice(arrayFilter(propsTokens, currentFilters), currentFilters.maxRecords),
            currentFilters.sortBy)

\* the memo: filter, sort, then slice(0, maxRecords)
filteredTokens(propsTokens, currentFilters) ==
  slice(arraySort(arrayFilter(propsTokens, currentFilters), currentFilters.sortBy),
        currentFilters.maxRecords)

----------------------------------------------------------------------------
(* calculateTrend.  A history is the list of samples of one token in the    *)
(* order of arrival; totalLiquidity and holderCount are kept in hundredths, *)
(* so that a liquidity of 0.01 is the integer 1 and 3 holders are 300.      *)
(* The slope is the exact rational numerator / denominator.                 *)

Sample(ts, liquidity, holders) ==
  [timestamp |-> ts, totalLiquidity |-> liquidity, holderCount |-> holders]

S_liquidity_type == "liquidity"
S_holders_type == "holders"
TrendTypes == {S_liquidity_type, S_holders_type}

\* where a stable sort with (a, b) => a.timestamp - b.timestamp puts x
timestampInsert(sorted, x) ==
  LET notGreater == {i \in DOMAIN sorted : sorted[i].timestamp - x.timestamp <= 0}
      k == IF notGreater = {} THEN 0 ELSE CHOOSE i \in notGreater : \A j \in notGreater : j <= i
  IN SubSeq(sorted, 1, k) \o <<x>> \o SubSeq(sorted, k + 1, Len(sorted))

RECURSIVE timestampSort(_)
timestampSort(history) ==
  IF history = <<>> THEN <<>>
  ELSE timestampInsert(timestampSort(SubSeq(history, 1, Len(history) - 1)),
                       history[Len(history)])

\* variant: the samples taken in the order of arrival
sortedHistory_unsorted(history) == history

\* [...history].sort((a, b) => a.timestamp - b.timestamp)
sortedHistory(history) == timestampSort(history)

\* the caller's array after the call: the sort works on the copy [...history]
historyAfterTrend(history) == history

\* reduce((a, b) => a + b, 0)
RECURSIVE reduceSum(_)
reduceSum(points) ==
  IF points = <<>> THEN 0 ELSE reduceSum(SubSeq(points, 1, Len(points) - 1)) + points[Len(points)]

xPoints(data) == [i \in DOMAIN data |-> i - 1]

\* variant: the two selectors exchanged
yPoints_exchanged(data, type) ==
  [i \in DOMAIN data |->
     IF type = S_liquidity_type THEN data[i].holderCount ELSE data[i].totalLiquidity]

yPoints(data, type) ==
  [i \in DOMAIN data |->
     IF type = S_liquidity_type THEN data[i].totalLiquidity ELSE data[i].holderCount]

\* sum of (x - xMean) * (y - yMean), times n * n
slopeNumerator(xs, ys) ==
  LET n == Len(xs)
      xSum == reduceSum(xs)
      ySum == reduceSum(ys)
  IN reduceSum([i \in DOMAIN xs |-> (n * xs[i] - xSum) * (n * ys[i] - ySum)])

\* sum of (x - xMean) ^ 2, times n * n
slopeDenominator(xs) ==
  LET n == Len(xs)
      xSum == reduceSum(xs)
  IN reduceSum([i \in DOMAIN xs |-> (n * xs[i] - xSum) * (n * xs[i] - xSum)])

Abs(v) == IF v < 0 THEN -v ELSE v

\* variant: without the threshold, 'stagnant' for a slope of 0 only
classify_noThreshold(numerator, denominator) ==
  IF numerator = 0 THEN "stagnant" ELSE IF numerator > 0 THEN "up" ELSE "down"

\* Math.abs(slope) < threshold ? 'stagnant' : slope > 0 ? 'up' : 'down'
\* for slope = numerator / denominator hundredths, denominator > 0
classify(numerator, denominator) ==
  IF Abs(numerator) < ThresholdHundredths * denominator THEN "stagnant"
  ELSE IF numerator > 0 THEN "up" ELSE "down"

calculateTrend(history, type) ==
  IF Len(history) < 2 THEN "stagnant"
  ELSE LET data == sortedHistory(history)
           xs == xPoints(data)
           ys == yPoints(data, type)
       IN classify(slopeNumerator(xs, ys), slopeDenominator(xs))

----------------------------------------------------------------------------
(* The signals and the environment of the list component.                   *)
(* Index keys are those of the code: the token at index i of the memo is    *)
(* finalResult[i + 1].  A Map is a function on its set of keys.             *)

EmptyMap == <<>>

has(map, key) == key \in DOMAIN map

\* variant: the Map built from nothing, not from the previous one
mapSet_fresh(map, key, value) == [k \in {key} |-> value]

\* Map.prototype.set on a copy of map
mapSet(map, key, value) ==
  [k \in DOMAIN map \cup {key} |-> IF k = key THEN value ELSE map[k]]

\* Map.prototype.delete on a copy of map
mapDelete(map, key) == [k \in DOMAIN map \ {key} |-> map[k]]

Addresses == {t.tokenAddress : t \in TokenPool}

\* value of settled when the last step settled no fetch
NoSettle == [kind |-> "none"]

\* filteredTokens()[index]
tokenAt(result, index) == IF index + 1 \in DOMAIN result THEN <<result[index + 1]>> ELSE <<>>

\* estimateSize over given signal values; if (measuredHeight) is false for a
\* missing entry and for a stored 0
estimateSizeOf(result, heights, expanded, index) ==
  IF tokenAt(result, index) = <<>> THEN COLLAPSED_HEIGHT
  ELSE IF has(heights, index) /\ heights[index] # 0 THEN heights[index]
  ELSE IF tokenAt(result, index)[1].tokenAddress \in expanded THEN EXPANDED_HEIGHT
  ELSE COLLAPSED_HEIGHT

estimateSize(index) == estimateSizeOf(finalResult, measuredHeights, expandedTokens, index)

\* the sizes the virtualizer takes from estimateSize for the indices below
\* count, when it is created and when measure() empties its size cache
estimatedSizes(result, heights, expanded) ==
  [index \in 0..(Len(result) - 1) |-> estimateSizeOf(result, heights, expanded, index)]

\* the rows the virtualizer reports: rows consecutive indices from first on,
\* below count
rowsFrom(first, rows, count) == {index \in first..(first + rows - 1) : index < count}

\* the Set of token addresses of the visible rows
visibleAddresses(items, result) ==
  {tokenAt(result, index)[1].tokenAddress : index \in {i \in items : tokenAt(result, i) # <<>>}}

\* variant: a fetch for every visible token, cached or not
fetchesOf_all(items, result, histories) == visibleAddresses(items, result)

\* the visibility effect: the addresses it calls fetchTokenHistory for
fetchesOf(items, result, histories) ==
  {a \in visibleAddresses(items, result) : ~has(histories, a)}

\* a run of the visibility effect against the new signal values; every call
\* of fetchTokenHistory adds a fetch in flight to those of inFlight
effectRuns(inFlight) ==
  /\ issued' = fetchesOf(virtualItems', finalResult', tokenHistories')
  /\ \A a \in issued' : inFlight[a] < MaxInFlight
  /\ pending' = [a \in Addresses |-> IF a \in issued' THEN inFlight[a] + 1 ELSE inFlight[a]]

visibilityEffect == effectRuns(pending)

\* localStorage item 'tokenHistoryCache': absent, text that is no JSON, the
\* JSON text of { timestamp, data }, that of an object without a numeric
\* timestamp member, or that of an object without a data member
NoHistoryItem == [kind |-> "none"]
MalformedHistoryItem == [kind |-> "malformed"]
HistoryItem(timestamp, data) == [kind |-> "json", timestamp |-> timestamp, data |-> data]
HistoryItemNoTimestamp(data) == [kind |-> "noTimestamp", data |-> data]
HistoryItemNoData(timestamp) == [kind |-> "noData", timestamp |-> timestamp]

\* variant: a blob of exactly the expiry age still accepted
notExpired_inclusive(dateNow, timestamp) == dateNow - timestamp <= HISTORY_CACHE_EXPIRY

\* Date.now() - timestamp < HISTORY_CACHE_EXPIRY
notExpired(dateNow, timestamp) == dateNow - timestamp < HISTORY_CACHE_EXPIRY

\* no item, or JSON.parse throws into the catch block: the empty Map;
\* Date.now() - undefined is NaN and NaN < HISTORY_CACHE_EXPIRY is false: the
\* empty Map; Object.entries(undefined) throws into the catch block: the
\* empty Map
loadCachedHistories(cached, dateNow) ==
  IF cached.kind \in {"none", "malformed"} THEN EmptyMap
  ELSE IF cached.kind = "noTimestamp" THEN EmptyMap
  ELSE IF ~notExpired(dateNow, cached.timestamp) THEN EmptyMap
  ELSE IF cached.kind = "noData" THEN EmptyMap
  ELSE cached.data

\* props.onStatsChange was never called
NoStats == [kind |-> "none"]

\* the arguments of props.onStatsChange: finalResult.length and
\* expandedTokens().size
statsOf(result, expanded) == [filtered |-> Len(result), expanded |-> Cardinality(expanded)]

\* variant: the size of the expansion set before the step
onStatsChange_previousSize == stats' = statsOf(finalResult', expandedTokens)

\* the memo reads filters(), props.tokens and expandedTokens(): a change of
\* any of them evaluates it again, and it calls props.onStatsChange; the
\* stats effect then calls it with the same two values
onStatsChange == stats' = statsOf(finalResult', expandedTokens')

\* the filters signal holds null: the first evaluation of the memo throws a
\* TypeError at currentFilters.maxRecords (at currentFilters.hideHoneypots
\* when there are tokens), the component function is left, and nothing
\* below the memo is created
memoThrows ==
  /\ finalResult = <<>>
  /\ measuredHeights = EmptyMap
  /\ scrollTop = 0
  /\ virtualItems = {}
  /\ itemSizes = EmptyMap
  /\ tokenHistories = EmptyMap
  /\ issued = {}
  /\ pending = [a \in Addresses |-> 0]
  /\ rendered = FALSE
  /\ observing = FALSE
  /\ listening = FALSE
  /\ stats = NoStats

\* the component function runs to its end
bodyCompletes ==
  /\ finalResult = filteredTokens(tokens, filters)
  /\ measuredHeights = EmptyMap
  /\ scrollTop = 0
  /\ virtualItems = rowsFrom(0, viewportRows, Len(finalResult))
  /\ itemSizes = estimatedSizes(finalResult, measuredHeights, expandedTokens)
  /\ tokenHistories = loadCachedHistories(storedHistories, now)
  /\ issued = fetchesOf(virtualItems, finalResult, tokenHistories)
  /\ pending = [a \in Addresses |-> IF a \in issued THEN 1 ELSE 0]
  /\ rendered = TRUE
  /\ observing = TRUE
  /\ listening = TRUE
  /\ stats = statsOf(finalResult, expandedTokens)

\* the state after construction, for given props.tokens, persisted items,
\* clock and layout: the signals at their initial values, the virtualizer
\* created at offset 0, the visibility effect run once
Constructed(saved) ==
  /\ storedFilters = saved
  /\ filters = getSavedFilters(saved)
  /\ expandedTokens = {}
  /\ IF filters = Null THEN memoThrows ELSE bodyCompletes
  /\ tokenTrends = EmptyMap
  /\ settled = NoSettle
  /\ failed = {}
  /\ rafQueue = <<>>

\* the clock at construction
ConstructionTime == 2 * HISTORY_CACHE_EXPIRY

----------------------------------------------------------------------------
(* Filter controls: each calls updateFilters, which sets the filters signal; *)
(* the memo is recomputed from the new FilterState.                         *)

\* variant: the measured heights and the scroll offset kept
updateFilters_keepsLayout(updated) ==
  /\ rendered
  /\ filters' = updated
  /\ finalResult' = filteredTokens(tokens, updated)
  /\ virtualItems' = rowsFrom(0, viewportRows, Len(finalResult'))
  /\ itemSizes' = estimatedSizes(finalResult', measuredHeights, expandedTokens)
  /\ UNCHANGED tokenHistories
  /\ visibilityEffect
  /\ settled' = NoSettle
  /\ storedFilters' = JsonItem(updated)
  /\ UNCHANGED <<tokens, expandedTokens, measuredHeights, scrollTop, viewportRows,
                 storedHistories, registrations, now, tokenTrends, failed, rafQueue>>
  /\ onStatsChange

\* variant: the blob written from the FilterState before the update
updateFilters_persistsPrevious(updated) ==
  /\ rendered
  /\ filters' = updated
  /\ storedFilters' = JsonItem(filters)
  /\ scrollTop' = 0
  /\ measuredHeights' = EmptyMap
  /\ finalResult' = filteredTokens(tokens, updated)
  /\ virtualItems' = rowsFrom(0, viewportRows, Len(finalResult'))
  /\ itemSizes' = estimatedSizes(finalResult', measuredHeights', expandedTokens)
  /\ UNCHANGED tokenHistories
  /\ visibilityEffect
  /\ settled' = NoSettle
  /\ UNCHANGED <<tokens, expandedTokens, viewportRows, storedHistories, registrations, now,
                 tokenTrends, failed, rafQueue>>
  /\ onStatsChange

\* the blob is written from the new FilterState, the memo is recomputed from
\* it, the virtualizer is created anew for it at the new offset, and the
\* visibility effect runs
updateFilters(updated) ==
  /\ rendered
  /\ filters' = updated
  /\ storedFilters' = JsonItem(updated)
  /\ scrollTop' = 0
  /\ measuredHeights' = EmptyMap
  /\ finalResult' = filteredTokens(tokens, updated)
  /\ virtualItems' = rowsFrom(0, viewportRows, Len(finalResult'))
  /\ itemSizes' = estimatedSizes(finalResult', measuredHeights', expandedTokens)
  /\ UNCHANGED tokenHistories
  /\ visibilityEffect
  /\ settled' = NoSettle
  /\ UNCHANGED <<tokens, expandedTokens, viewportRows, storedHistories, registrations, now,
                 tokenTrends, failed, rafQueue>>
  /\ onStatsChange

Queries == {<<>>, <<"a", "B">>, <<"L">>}

\* the options of the sort select
SortOptions == {S_age, S_age \o ASC, S_liquidity, S_liquidity \o ASC,
                S_holders, S_holders \o ASC, S_safetyScore}

\* parseInt(value) || 0 of the number inputs
ThresholdInputs == {0, MinThreshold}

SearchInput == \E q \in Queries : updateFilters([filters EXCEPT !.searchQuery = q])

SortChange == \E s \in SortOptions : updateFilters([filters EXCEPT !.sortBy = s])

MinHoldersInput == \E n \in ThresholdInputs : updateFilters([filters EXCEPT !.minHolders = n])

MinLiquidityInput == \E n \in ThresholdInputs : updateFilters([filters EXCEPT !.minLiquidity = n])

HideHoneypotsChange == \E checked \in BOOLEAN : updateFilters([filters EXCEPT !.hideHoneypots = checked])

HideWarningChange == \E checked \in BOOLEAN : updateFilters([filters EXCEPT !.hideWarning = checked])

HideDangerChange == \E checked \in BOOLEAN : updateFilters([filters EXCEPT !.hideDanger = checked])

HideNotRenouncedChange == \E checked \in BOOLEAN : updateFilters([filters EXCEPT !.hideNotRenounced = checked])

HideUnlockedLiquidityChange == \E checked \in BOOLEAN : updateFilters([filters EXCEPT !.hideUnlockedLiquidity = checked])

----------------------------------------------------------------------------
(* FilterSpec: the filter predicate.  The component is constructed with any *)
(* token collection and a persisted blob that sets the two toggles without  *)
(* a control; every predicate control then acts.  sortBy and maxRecords     *)
(* stay at their defaults.                                                  *)

FilterSavedItems ==
  {NoItem, MalformedItem} \cup
  {JsonItem([DefaultFilters EXCEPT !.showOnlyHoneypots = h, !.showOnlySafe = s]) : h, s \in BOOLEAN}

FilterInit ==
  /\ tokens \in TokenSeqs
  /\ viewportRows = 0
  /\ storedHistories = NoHistoryItem
  /\ now = ConstructionTime
  /\ \E saved \in FilterSavedItems : Constructed(saved)

FilterNext ==
  \/ SearchInput
  \/ MinHoldersInput
  \/ MinLiquidityInput
  \/ HideHoneypotsChange
  \/ HideWarningChange
  \/ HideDangerChange
  \/ HideNotRenouncedChange
  \/ HideUnlockedLiquidityChange

FilterSpec == FilterInit /\ [][FilterNext]_vars

(* SortSpec: sorting and truncation.  The persisted blob sets sortBy (also  *)
(* to values the select does not offer) and maxRecords; the sort select,    *)
(* one toggle and one threshold act.                                        *)

SavedSortBys == {S_age, S_safetyScore \o ASC, S_name, S_name \o ASC}

SavedMaxRecords == (0..MaxRecordsBound) \cup {DefaultMaxRecords}

SortSavedItems ==
  {NoItem, MalformedItem} \cup
  {JsonItem([DefaultFilters EXCEPT !.sortBy = s, !.maxRecords = m]) :
     s \in SavedSortBys, m \in SavedMaxRecords}

SortInit ==
  /\ tokens \in TokenSeqs
  /\ viewportRows = 0
  /\ storedHistories = NoHistoryItem
  /\ now = ConstructionTime
  /\ \E saved \in SortSavedItems : Constructed(saved)

SortNext ==
  \/ SortChange
  \/ HideHoneypotsChange
  \/ MinHoldersInput

SortSpec == SortInit /\ [][SortNext]_vars

----------------------------------------------------------------------------
(* fetchTokenHistory: the settlement of a fetch in flight.  A response is   *)
(* a rejected fetch, a body that is no JSON, a JSON body without a history  *)
(* field, one whose history is no list, or one with a history list.         *)

NetworkError == [kind |-> "networkError"]
Unparsable == [kind |-> "unparsable"]
NoHistoryField == [kind |-> "noHistory"]
HistoryNotAList == [kind |-> "notAList"]
HistoryBody(history) == [kind |-> "history", history |-> history]

FailureResponses == {NetworkError, Unparsable, NoHistoryField, HistoryNotAList}

\* the entry updateTokenTrends sets for tokenAddress
trendsOf(history) ==
  [liquidity |-> calculateTrend(history, S_liquidity_type),
   holders |-> calculateTrend(history, S_holders_type)]

\* variant: the entry set only for a token that has none yet
updateTokenTrends_once(prev, tokenAddress, history) ==
  IF has(prev, tokenAddress) THEN prev ELSE mapSet(prev, tokenAddress, trendsOf(history))

\* setTokenTrends on a copy of the previous Map
updateTokenTrends(prev, tokenAddress, history) == mapSet(prev, tokenAddress, trendsOf(history))

\* the awaited response arrives with a history list: both Maps are set, the
\* stored list is the array calculateTrend was called on, and the visibility
\* effect runs because tokenHistories changed
fetchResolves(tokenAddress, history) ==
  /\ pending[tokenAddress] > 0
  /\ tokenHistories' = mapSet(tokenHistories, tokenAddress, historyAfterTrend(history))
  /\ tokenTrends' = updateTokenTrends(tokenTrends, tokenAddress, history)
  /\ UNCHANGED <<finalResult, virtualItems>>
  /\ effectRuns([pending EXCEPT ![tokenAddress] = @ - 1])
  /\ settled' = [kind |-> "resolved", tokenAddress |-> tokenAddress,
                 response |-> HistoryBody(history)]
  /\ UNCHANGED <<tokens, filters, storedFilters, expandedTokens, measuredHeights, scrollTop,
                 viewportRows, itemSizes, storedHistories, registrations, now, stats,
                 failed, rafQueue>>

\* variant: the catch block stores an empty history for the token
fetchFails_storesEmpty(tokenAddress, response) ==
  /\ pending[tokenAddress] > 0
  /\ pending' = [pending EXCEPT ![tokenAddress] = @ - 1]
  /\ issued' = {}
  /\ settled' = [kind |-> "failed", tokenAddress |-> tokenAddress, response |-> response]
  /\ failed' = failed \cup {tokenAddress}
  /\ tokenHistories' = mapSet(tokenHistories, tokenAddress, <<>>)
  /\ UNCHANGED <<tokens, filters, storedFilters, finalResult, expandedTokens,
                 measuredHeights, scrollTop, viewportRows, virtualItems, itemSizes,
                 storedHistories, registrations, now, stats, tokenTrends, rafQueue>>

\* variant: the catch block calls fetchTokenHistory again
fetchFails_retries(tokenAddress, response) ==
  /\ pending[tokenAddress] > 0
  /\ issued' = {tokenAddress}
  /\ settled' = [kind |-> "failed", tokenAddress |-> tokenAddress, response |-> response]
  /\ failed' = failed \cup {tokenAddress}
  /\ UNCHANGED <<tokens, filters, storedFilters, finalResult, expandedTokens,
                 measuredHeights, scrollTop, viewportRows, virtualItems, itemSizes,
                 storedHistories, registrations, now, stats, tokenHistories, tokenTrends,
                 pending, rafQueue>>

\* the fetch throws or the body is refused: the catch block logs
fetchFails(tokenAddress, response) ==
  /\ pending[tokenAddress] > 0
  /\ pending' = [pending EXCEPT ![tokenAddress] = @ - 1]
  /\ issued' = {}
  /\ settled' = [kind |-> "failed", tokenAddress |-> tokenAddress, response |-> response]
  /\ failed' = failed \cup {tokenAddress}
  /\ UNCHANGED <<tokens, filters, storedFilters, finalResult, expandedTokens,
                 measuredHeights, scrollTop, viewportRows, virtualItems, itemSizes,
                 storedHistories, registrations, now, stats, tokenHistories, tokenTrends,
                 rafQueue>>

----------------------------------------------------------------------------
(* TrendSpec: calculateTrend.  One token is listed and visible, its fetch    *)
(* is in flight and resolves with any history of the bounded set below.      *)

\* liquidities of the samples of a history of n samples, in hundredths: 0,
\* 0.01 and the whole numbers up to MaxMetric in a short history, 0 and 1 in a
\* longer one
MetricValues(n) == IF n <= MaxShort THEN {0, 1} \cup {100 * k : k \in 1..MaxMetric} ELSE {0, 100}

\* the holder count that comes with a liquidity: a whole number that falls
\* where the liquidity rises
holdersFor(liquidity) == 100 * (MaxMetric - (liquidity \div 100))

\* timestamps of n samples in the order of arrival: ascending, descending,
\* rotated by one (the earliest sample arrives last), all equal, equal in pairs
ArrivalOrders(n) ==
  {[i \in 1..n |-> i], [i \in 1..n |-> n + 1 - i], [i \in 1..n |-> (i % n) + 1],
   [i \in 1..n |-> 1], [i \in 1..n |-> (i + 1) \div 2]}

\* the history of n samples with liquidities v and timestamps ts
historyOf(n, v, ts) == [i \in 1..n |-> Sample(ts[i], v[i], holdersFor(v[i]))]

TrendInit ==
  /\ tokens = <<T1>>
  /\ viewportRows = 1
  /\ storedHistories = NoHistoryItem
  /\ now = ConstructionTime
  /\ Constructed(NoItem)

FetchResolvesAny ==
  /\ pending[T1.tokenAddress] > 0
  /\ \E n \in 0..MaxSamples :
       \E v \in [1..n -> MetricValues(n)], ts \in ArrivalOrders(n) :
         fetchResolves(T1.tokenAddress, historyOf(n, v, ts))

TrendNext == FetchResolvesAny

TrendSpec == TrendInit /\ [][TrendNext]_vars

----------------------------------------------------------------------------
(* Scrolling, token refresh, measurement, expansion, resize *)

\* the indices the virtualizer can report as the first row
FirstRows(count) == IF count = 0 THEN {0} ELSE 0..(count - 1)

\* the scroll offset becomes offset: the virtualizer reports the rows from
\* some index on (from index 0 at offset 0); the visibility effect runs when
\* the reported rows change
scrolledTo(offset) ==
  /\ scrollTop' = offset
  /\ \E first \in FirstRows(Len(finalResult)) :
       /\ offset = 0 => first = 0
       /\ virtualItems' = rowsFrom(first, viewportRows, Len(finalResult))
  /\ UNCHANGED <<finalResult, tokenHistories>>
  /\ IF virtualItems' # virtualItems THEN visibilityEffect
     ELSE issued' = {} /\ UNCHANGED pending

\* the scroll container is scrolled by the user
Scroll ==
  \E offset \in 0..MaxScroll :
    /\ rendered
    /\ offset # scrollTop
    /\ scrolledTo(offset)
    /\ settled' = NoSettle
    /\ UNCHANGED <<tokens, filters, storedFilters, expandedTokens, measuredHeights,
                   viewportRows, itemSizes, storedHistories, registrations, now, stats,
                   tokenTrends, failed, rafQueue>>

\* the parent passes a new props.tokens: the memo is recomputed, the
\* virtualizer is created anew at the current offset, the visibility effect
\* runs
tokensRefresh(newTokens) ==
  /\ rendered
  /\ newTokens # tokens
  /\ tokens' = newTokens
  /\ finalResult' = filteredTokens(newTokens, filters)
  /\ \E first \in FirstRows(Len(finalResult')) :
       /\ scrollTop = 0 => first = 0
       /\ virtualItems' = rowsFrom(first, viewportRows, Len(finalResult'))
  /\ itemSizes' = estimatedSizes(finalResult', measuredHeights, expandedTokens)
  /\ UNCHANGED tokenHistories
  /\ visibilityEffect
  /\ settled' = NoSettle
  /\ UNCHANGED <<filters, storedFilters, expandedTokens, measuredHeights, scrollTop,
                 viewportRows, storedHistories, registrations, now, tokenTrends, failed,
                 rafQueue>>
  /\ onStatsChange

\* the callbacks passed to requestAnimationFrame, with what they close over
RestoreScroll(scroll) == [kind |-> "restoreScroll", scroll |-> scroll]
ScrollToIndex(index, tokenAddress) ==
  [kind |-> "scrollToIndex", index |-> index, align |-> "start", tokenAddress |-> tokenAddress]

\* virtualizer().measure(): the virtualizer takes the sizes from estimateSize
\* again
measure == itemSizes' = estimatedSizes(finalResult', measuredHeights', expandedTokens')

\* the ResizeObserver callback with one entry, the row element of index with
\* a bounding height of currentHeight that differs from the stored one
resizeObserved(index, currentHeight) ==
  /\ observing
  /\ index \in virtualItems
  /\ IF has(measuredHeights, index) THEN measuredHeights[index] # currentHeight ELSE TRUE
  /\ Len(rafQueue) < MaxCallbacks
  /\ measuredHeights' = mapSet(measuredHeights, index, currentHeight)
  /\ UNCHANGED <<finalResult, expandedTokens>>
  /\ measure
  /\ rafQueue' = Append(rafQueue, RestoreScroll(scrollTop))
  /\ issued' = {}
  /\ settled' = NoSettle
  /\ UNCHANGED <<tokens, filters, storedFilters, scrollTop, viewportRows, virtualItems,
                 storedHistories, registrations, now, stats, tokenHistories, tokenTrends,
                 pending, failed>>

\* filteredTokens().findIndex(t => t.tokenAddress === tokenAddress)
findIndex(result, tokenAddress) ==
  LET found == {i \in DOMAIN result : result[i].tokenAddress = tokenAddress}
  IN IF found = {} THEN -1 ELSE (CHOOSE i \in found : \A j \in found : i <= j) - 1

\* variant: the address added whether it is in the set or not
toggled_addsOnly(expanded, tokenAddress) == expanded \cup {tokenAddress}

\* toggleTokenExpansion on a copy of the set
toggled(expanded, tokenAddress) ==
  IF tokenAddress \in expanded THEN expanded \ {tokenAddress} ELSE expanded \cup {tokenAddress}

\* variant: every measured height dropped
handleTokenClick_clearsHeights(tokenAddress) ==
  LET index == findIndex(finalResult, tokenAddress)
  IN /\ rendered
     /\ tokenAddress \in visibleAddresses(virtualItems, finalResult)
     /\ Len(rafQueue) < MaxCallbacks
     /\ expandedTokens' = toggled(expandedTokens, tokenAddress)
     /\ measuredHeights' = EmptyMap
     /\ UNCHANGED finalResult
     /\ measure
     /\ rafQueue' = IF index >= 0 THEN Append(rafQueue, ScrollToIndex(index, tokenAddress))
                    ELSE rafQueue
     /\ UNCHANGED <<virtualItems, tokenHistories>>
     /\ visibilityEffect
     /\ settled' = NoSettle
     /\ UNCHANGED <<tokens, filters, storedFilters, scrollTop, viewportRows, storedHistories,
                    registrations, now, tokenTrends, failed>>
     /\ onStatsChange

\* a click on a rendered row
handleTokenClick(tokenAddress) ==
  LET index == findIndex(finalResult, tokenAddress)
  IN /\ rendered
     /\ tokenAddress \in visibleAddresses(virtualItems, finalResult)
     /\ Len(rafQueue) < MaxCallbacks
     /\ expandedTokens' = toggled(expandedTokens, tokenAddress)
     /\ measuredHeights' = mapDelete(measuredHeights, index)
     /\ UNCHANGED finalResult
     /\ measure
     /\ rafQueue' = IF index >= 0 THEN Append(rafQueue, ScrollToIndex(index, tokenAddress))
                    ELSE rafQueue
     /\ UNCHANGED <<virtualItems, tokenHistories>>
     /\ visibilityEffect
     /\ settled' = NoSettle
     /\ UNCHANGED <<tokens, filters, storedFilters, scrollTop, viewportRows, storedHistories,
                    registrations, now, tokenTrends, failed>>
     /\ onStatsChange

\* variant: collapse whenever the set holds any address
hasExpanded_anyAddress(currentTokens, prev) == prev # {}

\* currentTokens.some(token => prev.has(token.tokenAddress))
hasExpanded(currentTokens, prev) ==
  \E i \in DOMAIN currentTokens : currentTokens[i].tokenAddress \in prev

\* the onClick of the expand-all / collapse-all button: the expansion set is
\* replaced.  The memo reads expandedTokens(), so it is evaluated again and
\* returns a new array of the same tokens: the virtualizer is created anew
\* at the current offset with sizes from estimateSize, and the visibility
\* effect runs.  No height is dropped, measure() is not called and nothing
\* is deferred to the next paint
toggleExpandAll ==
  /\ rendered
  /\ expandedTokens' = IF hasExpanded(finalResult, expandedTokens) THEN {}
                       ELSE {finalResult[i].tokenAddress : i \in DOMAIN finalResult}
  /\ UNCHANGED <<finalResult, virtualItems, tokenHistories, measuredHeights>>
  /\ itemSizes' = estimatedSizes(finalResult', measuredHeights', expandedTokens')
  /\ visibilityEffect
  /\ settled' = NoSettle
  /\ UNCHANGED <<tokens, filters, storedFilters, scrollTop, viewportRows, storedHistories,
                 registrations, now, tokenTrends, failed, rafQueue>>
  /\ onStatsChange

\* the label of the expand-all / collapse-all button
bulkLabel(expanded) == IF Cardinality(expanded) > 0 THEN "Collapse All" ELSE "Expand All"

\* variant: the measured heights kept
handleResize_keepsHeights ==
  /\ listening
  /\ Len(rafQueue) < MaxCallbacks
  /\ UNCHANGED <<finalResult, expandedTokens, measuredHeights>>
  /\ measure
  /\ rafQueue' = Append(rafQueue, RestoreScroll(scrollTop))
  /\ issued' = {}
  /\ settled' = NoSettle
  /\ UNCHANGED <<tokens, filters, storedFilters, scrollTop, viewportRows, virtualItems,
                 storedHistories, registrations, now, stats, tokenHistories, tokenTrends,
                 pending, failed>>

\* the window 'resize' listener
handleResize ==
  /\ listening
  /\ Len(rafQueue) < MaxCallbacks
  /\ measuredHeights' = EmptyMap
  /\ UNCHANGED <<finalResult, expandedTokens>>
  /\ measure
  /\ rafQueue' = Append(rafQueue, RestoreScroll(scrollTop))
  /\ issued' = {}
  /\ settled' = NoSettle
  /\ UNCHANGED <<tokens, filters, storedFilters, scrollTop, viewportRows, virtualItems,
                 storedHistories, registrations, now, stats, tokenHistories, tokenTrends,
                 pending, failed>>

\* the list view is torn down: the owner of the component is rendered and the
\* onCleanup of the ResizeObserver effect disconnects the observer.  The
\* function the resize effect returns is its value for its next run, not a
\* cleanup: nothing calls it, and handleResize stays registered
Teardown ==
  /\ rendered
  /\ rendered' = FALSE
  /\ observing' = FALSE
  /\ UNCHANGED listening
  /\ issued' = {}
  /\ settled' = NoSettle
  /\ UNCHANGED <<tokens, filters, storedFilters, finalResult, expandedTokens,
                 measuredHeights, scrollTop, viewportRows, virtualItems, itemSizes,
                 storedHistories, now, stats, tokenHistories, tokenTrends, pending, failed,
                 rafQueue>>

\* the offset after the queued callbacks have run in order: that of the last
\* scroll restore; a smooth scrollToIndex moves nothing within the frame
RECURSIVE offsetAfter(_, _)
offsetAfter(queue, offset) ==
  IF queue = <<>> THEN offset
  ELSE offsetAfter(Tail(queue),
                   IF Head(queue).kind = "restoreScroll" THEN Head(queue).scroll ELSE offset)

\* the next paint: the queued callbacks run
AnimationFrame ==
  /\ rafQueue # <<>>
  /\ rafQueue' = <<>>
  /\ IF offsetAfter(rafQueue, scrollTop) # scrollTop
     THEN scrolledTo(offsetAfter(rafQueue, scrollTop))
     ELSE UNCHANGED <<scrollTop, virtualItems, finalResult, tokenHistories, pending>> /\ issued' = {}
  /\ settled' = NoSettle
  /\ UNCHANGED <<tokens, filters, storedFilters, expandedTokens, measuredHeights,
                 viewportRows, itemSizes, storedHistories, registrations, now, stats,
                 tokenTrends, failed>>

----------------------------------------------------------------------------
(* HistorySpec: the History Cache and the Trend Store.  Two tokens are       *)
(* listed in some order, one row is shown at a time; the persisted history   *)
(* blob is absent or fresh; fetches resolve or fail in any order while the   *)
(* user scrolls, hides the 'warning' token and the parent refreshes the      *)
(* tokens.                                                                   *)

RisingHistory == <<Sample(1, 0, 100), Sample(2, 100, 200)>>
FallingHistory == <<Sample(2, 0, 100), Sample(1, 100, 200)>>

ResponseHistories == {RisingHistory, FallingHistory}

HistoryTokenSeqs == {<<T1, T3>>, <<T3, T1>>, <<T3>>}

\* the data of the persisted blob: the history of one token
BlobData == [a \in {T1.tokenAddress} |-> FallingHistory]

\* the persisted blob: absent, or one minute old
HistoryItems == {NoHistoryItem, HistoryItem(ConstructionTime - 60000, BlobData)}

HistoryInit ==
  /\ tokens \in HistoryTokenSeqs
  /\ viewportRows = 1
  /\ storedHistories \in HistoryItems
  /\ now = ConstructionTime
  /\ Constructed(NoItem)

FetchResolves ==
  \E tokenAddress \in {a \in Addresses : pending[a] > 0} :
    \E history \in ResponseHistories : fetchResolves(tokenAddress, history)

FetchFails ==
  \E tokenAddress \in {a \in Addresses : pending[a] > 0} :
    \E response \in FailureResponses : fetchFails(tokenAddress, response)

TokensRefresh == \E newTokens \in HistoryTokenSeqs : tokensRefresh(newTokens)

HistoryNext ==
  \/ FetchResolves
  \/ FetchFails
  \/ Scroll
  \/ HideWarningChange
  \/ TokensRefresh

HistorySpec == HistoryInit /\ [][HistoryNext]_vars

(* LoadSpec: loadCachedHistories at construction.  The persisted blob is     *)
(* absent, unreadable, or of an age around the expiry; one or two rows are   *)
(* shown; the fetches of the first run of the visibility effect settle.      *)

\* ages of the persisted blob: just below the expiry, the expiry, 6 minutes
BlobAges == {HISTORY_CACHE_EXPIRY - 1, HISTORY_CACHE_EXPIRY, HISTORY_CACHE_EXPIRY + 60000}

LoadItems ==
  {NoHistoryItem, MalformedHistoryItem} \cup
  {HistoryItem(ConstructionTime - age, BlobData) : age \in BlobAges}

LoadInit ==
  /\ tokens \in HistoryTokenSeqs
  /\ viewportRows \in {1, 2}
  /\ storedHistories \in LoadItems
  /\ now = ConstructionTime
  /\ Constructed(NoItem)

LoadNext ==
  \/ FetchResolves
  \/ FetchFails

LoadSpec == LoadInit /\ [][LoadNext]_vars

(* RestoreSpec: construction from the two persisted items.  The filter item  *)
(* is absent, no JSON, the text null or a FilterState; the history item is  *)
(* no JSON, lacks its timestamp or its data, or is fresh and whole; the     *)
(* fetches of the first run of the visibility effect settle.                *)

RestoreFilterItems ==
  {NoItem, MalformedItem, NullItem, JsonItem([DefaultFilters EXCEPT !.hideWarning = TRUE])}

RestoreHistoryItems ==
  {MalformedHistoryItem, HistoryItemNoTimestamp(BlobData),
   HistoryItemNoData(ConstructionTime - 60000), HistoryItem(ConstructionTime - 60000, BlobData)}

RestoreInit ==
  /\ tokens \in HistoryTokenSeqs
  /\ viewportRows \in {1, 2}
  /\ storedHistories \in RestoreHistoryItems
  /\ now = ConstructionTime
  /\ \E saved \in RestoreFilterItems : Constructed(saved)

RestoreSpec == RestoreInit /\ [][LoadNext]_vars

(* LayoutSpec: row heights and scrolling.  Two rows are shown, every listed  *)
(* token has its history in the fresh persisted blob (no fetch is issued);   *)
(* rows are measured, clicked, the window is resized, the user scrolls,      *)
(* hides the 'warning' token, and the parent refreshes the tokens.           *)

\* bounding heights the ResizeObserver reports: a hidden row, a row of some
\* height
MeasuredValues == {0, 100}

LayoutBlob ==
  HistoryItem(ConstructionTime - 60000,
              [a \in {T1.tokenAddress, T3.tokenAddress} |-> RisingHistory])

LayoutInit ==
  /\ tokens \in HistoryTokenSeqs
  /\ viewportRows = 2
  /\ storedHistories = LayoutBlob
  /\ now = ConstructionTime
  /\ Constructed(NoItem)

ResizeObserved ==
  \E index \in virtualItems, currentHeight \in MeasuredValues :
    resizeObserved(index, currentHeight)

HandleTokenClick == \E tokenAddress \in Addresses : handleTokenClick(tokenAddress)

LayoutNext ==
  \/ ResizeObserved
  \/ HandleTokenClick
  \/ handleResize
  \/ AnimationFrame
  \/ Scroll
  \/ HideWarningChange
  \/ TokensRefresh

LayoutSpec == LayoutInit /\ [][LayoutNext]_vars

(* ViewSpec: the same view with the expand-all / collapse-all button and    *)
(* its teardown; the tokens stay as passed at construction.                 *)

ViewNext ==
  \/ ResizeObserved
  \/ HandleTokenClick
  \/ toggleExpandAll
  \/ handleResize
  \/ Teardown
  \/ AnimationFrame
  \/ Scroll
  \/ HideWarningChange

ViewSpec == LayoutInit /\ [][ViewNext]_vars


(* SessionSpec: one session of the list.  The tokens, the layout and the    *)
(* persisted blob are those of HistorySpec; fetches resolve in any order     *)
(* while the user scrolls, hides the 'warning' token, clicks rows and the    *)
(* expand-all / collapse-all button, the window is resized and the parent    *)
(* refreshes the tokens.  A paint follows every click and every resize       *)
(* before the next of them.                                                  *)

SessionClick == rafQueue = <<>> /\ HandleTokenClick

SessionResize == rafQueue = <<>> /\ handleResize

SessionResolves ==
  \E tokenAddress \in {a \in Addresses : pending[a] > 0} :
    fetchResolves(tokenAddress, RisingHistory)

SessionNext ==
  \/ SessionResolves
  \/ Scroll
  \/ HideWarningChange
  \/ TokensRefresh
  \/ SessionClick
  \/ toggleExpandAll
  \/ SessionResize
  \/ AnimationFrame

SessionSpec == HistoryInit /\ [][SessionNext]_vars

----------------------------------------------------------------------------
(* The rules of the filter as the specification states them *)

In(t, seq) == \E i \in DOMAIN seq : seq[i] = t

Count(t, seq) == Cardinality({i \in DOMAIN seq : seq[i] = t})

Pos(seq, t) == CHOOSE i \in DOMAIN seq : seq[i] = t

\* maxRecords truncates nothing
Untruncated == Len(tokens) <= filters.maxRecords

HoneypotRule(t, f) ==
  /\ f.hideHoneypots => ~t.hpIsHoneypot
  /\ f.showOnlyHoneypots => t.hpIsHoneypot

RiskRule(t, f) ==
  /\ f.hideDanger => t.riskLevel # "danger"
  /\ f.hideWarning => t.riskLevel # "warning"
  /\ f.showOnlySafe => t.riskLevel = "safe"

RenouncedRule(t, f) == f.hideNotRenounced => t.gpOwnerAddress = ZeroAddress

ThresholdRule(t, f) ==
  /\ f.minHolders > 0 => t.gpHolderCount >= f.minHolders
  /\ f.minLiquidity > 0 => t.hpLiquidityAmount >= f.minLiquidity

QueryMatches(t, q) ==
  \E field \in {t.tokenName, t.tokenSymbol, t.tokenAddress} :
    \E i \in 1..Len(field) :
      /\ i + Len(q) - 1 <= Len(field)
      /\ \A k \in 1..Len(q) : toLowerCase(field)[i + k - 1] = toLowerCase(q)[k]

SearchRule(t, f) == f.searchQuery # <<>> => QueryMatches(t, f.searchQuery)

\* sum over the locked records of percent * 100
LockedSum(t) ==
  LET hs == t.gpLpHolders.holders
      locked == {i \in DOMAIN hs : hs[i].is_locked}
      RECURSIVE Sum(_)
      Sum(S) == IF S = {} THEN 0
                ELSE LET i == CHOOSE x \in S : TRUE IN hs[i].percent + Sum(S \ {i})
  IN Sum(locked)

\* the descriptor cannot be parsed or is no list
Malformed(t) == t.gpLpHolders.kind \in {"garbage", "nonlist"}

LockRule(t, f) == f.hideUnlockedLiquidity => (~Malformed(t) /\ LockedSum(t) >= LockThreshold)

OtherRules(t, f) ==
  HoneypotRule(t, f) /\ RiskRule(t, f) /\ RenouncedRule(t, f) /\ ThresholdRule(t, f)
  /\ SearchRule(t, f)

----------------------------------------------------------------------------
(* Claims about the filter predicate, under FilterSpec *)

\* C2: ignoring the liquidity-lock rule, a token of the input is in the result
\* before truncation iff it passes the honeypot, risk, ownership, threshold and
\* search rules; a threshold of 0 disables its test, a token at the threshold
\* is kept
C2_FilterPredicate ==
  Untruncated =>
    \A i \in DOMAIN tokens :
      LockRule(tokens[i], filters) =>
        (In(tokens[i], finalResult) <=> OtherRules(tokens[i], filters))

C2_Witness ==
  /\ filters.minHolders > 0
  /\ filters.searchQuery # <<>>
  /\ ~filters.hideUnlockedLiquidity
  /\ \E i, j \in DOMAIN tokens :
       /\ tokens[i].gpHolderCount = filters.minHolders
       /\ In(tokens[i], finalResult)
       /\ tokens[j].gpHolderCount < filters.minHolders
       /\ ~In(tokens[j], finalResult)

\* C3 as stated: a token that matches a non-empty search query is accepted
\* whatever the risk toggles and the minHolders / minLiquidity thresholds say
C3_SearchOverrides ==
  Untruncated =>
    \A i \in DOMAIN tokens :
      ( /\ filters.searchQuery # <<>>
        /\ QueryMatches(tokens[i], filters.searchQuery)
        /\ HoneypotRule(tokens[i], filters)
        /\ RenouncedRule(tokens[i], filters)
        /\ LockRule(tokens[i], filters) )
      => In(tokens[i], finalResult)

\* C3 amended: a token that matches a non-empty search query is accepted iff it
\* passes every other rule; a match overrides neither the risk toggles nor the
\* thresholds
C3_SearchDoesNotOverride ==
  Untruncated =>
    \A i \in DOMAIN tokens :
      ( /\ filters.searchQuery # <<>>
        /\ QueryMatches(tokens[i], filters.searchQuery) )
      => ( In(tokens[i], finalResult) <=>
             /\ HoneypotRule(tokens[i], filters)
             /\ RiskRule(tokens[i], filters)
             /\ RenouncedRule(tokens[i], filters)
             /\ LockRule(tokens[i], filters)
             /\ ThresholdRule(tokens[i], filters) )

C3_Witness ==
  /\ filters.searchQuery # <<>>
  /\ \E i, j \in DOMAIN tokens :
       /\ QueryMatches(tokens[i], filters.searchQuery)
       /\ ~RiskRule(tokens[i], filters)
       /\ ~In(tokens[i], finalResult)
       /\ QueryMatches(tokens[j], filters.searchQuery)
       /\ In(tokens[j], finalResult)

\* C9: with hideHoneypots and showOnlyHoneypots both set the output is empty
C9_BothHoneypotToggles ==
  (filters.hideHoneypots /\ filters.showOnlyHoneypots) => finalResult = <<>>

C9_Witness ==
  /\ filters.hideHoneypots /\ filters.showOnlyHoneypots
  /\ ~filters.hideDanger /\ ~filters.hideWarning /\ ~filters.showOnlySafe
  /\ ~filters.hideNotRenounced /\ ~filters.hideUnlockedLiquidity
  /\ filters.minHolders = 0 /\ filters.minLiquidity = 0 /\ filters.searchQuery = <<>>
  /\ \E i, j \in DOMAIN tokens : tokens[i].hpIsHoneypot /\ ~tokens[j].hpIsHoneypot
  /\ finalResult = <<>>

\* C10: with hideUnlockedLiquidity set, a token that passes the other rules is
\* rejected iff its descriptor is malformed or its locked sum is < 90 (an
\* absent descriptor sums to 0, a sum of 90 is kept), the other tokens of the
\* pass being judged all the same; with hideUnlockedLiquidity unset the
\* descriptor has no effect
C10_LockRule ==
  Untruncated =>
    \A i \in DOMAIN tokens :
      /\ (filters.hideUnlockedLiquidity /\ OtherRules(tokens[i], filters))
           => ( ~In(tokens[i], finalResult) <=>
                  (Malformed(tokens[i]) \/ LockedSum(tokens[i]) < LockThreshold) )
      /\ ~filters.hideUnlockedLiquidity
           => ( In(tokens[i], finalResult) <=> OtherRules(tokens[i], filters) )

C10_Witness ==
  /\ filters.hideUnlockedLiquidity
  /\ \E i, j \in DOMAIN tokens :
       /\ i < j
       /\ Malformed(tokens[i])
       /\ OtherRules(tokens[i], filters)
       /\ ~In(tokens[i], finalResult)
       /\ LockedSum(tokens[j]) = LockThreshold
       /\ In(tokens[j], finalResult)

----------------------------------------------------------------------------
(* Claims about sorting and truncation, under SortSpec *)

\* the ordinals of the risk levels
RiskOrdinal(t) ==
  IF t.riskLevel = "safe" THEN 2 ELSE IF t.riskLevel = "warning" THEN 1 ELSE 0

Recognised ==
  {S_age, S_age \o ASC, S_holders, S_holders \o ASC, S_liquidity, S_liquidity \o ASC,
   S_safetyScore, S_safetyScore \o ASC}

\* the sort reordered the two leading tokens of the input
Reordered ==
  /\ Len(tokens) >= 2 /\ Len(finalResult) >= 1
  /\ finalResult[1] = tokens[2]
  /\ filterPredicate(tokens[1], filters)

\* C1: every element of the output is an element of the input, no more often
\* than in the input, and the output is no longer than maxRecords
C1_OutputFromInput ==
  /\ \A i \in DOMAIN finalResult :
       Count(finalResult[i], finalResult) <= Count(finalResult[i], tokens)
  /\ Len(finalResult) <= filters.maxRecords

C1_Witness ==
  /\ filters.maxRecords > 0
  /\ Len(finalResult) = filters.maxRecords
  /\ Len(tokens) > filters.maxRecords
  /\ \A i \in DOMAIN tokens : filterPredicate(tokens[i], filters)
  /\ Reordered

\* C4: holders, liquidity and safetyScore sort in non-increasing order of the
\* field, their _asc forms in non-decreasing order
C4_FieldOrder ==
  \A i, j \in DOMAIN finalResult :
    i < j =>
      LET a == finalResult[i]
          b == finalResult[j]
          s == filters.sortBy
      IN /\ s = S_holders => a.gpHolderCount >= b.gpHolderCount
         /\ s = S_liquidity => a.hpLiquidityAmount >= b.hpLiquidityAmount
         /\ s = S_safetyScore => RiskOrdinal(a) >= RiskOrdinal(b)
         /\ s = S_holders \o ASC => a.gpHolderCount <= b.gpHolderCount
         /\ s = S_liquidity \o ASC => a.hpLiquidityAmount <= b.hpLiquidityAmount
         /\ s = S_safetyScore \o ASC => RiskOrdinal(a) <= RiskOrdinal(b)

C4_Witness ==
  /\ filters.sortBy = S_holders
  /\ Len(finalResult) = 2
  /\ finalResult[1].gpHolderCount > finalResult[2].gpHolderCount
  /\ Reordered

\* C5 as stated: sortBy 'age' orders by age in hours descending, 'age_asc'
\* ascending
C5_AgeDescending ==
  \A i, j \in DOMAIN finalResult :
    i < j =>
      /\ filters.sortBy = S_age =>
           finalResult[i].tokenAgeHours >= finalResult[j].tokenAgeHours
      /\ filters.sortBy = S_age \o ASC =>
           finalResult[i].tokenAgeHours <= finalResult[j].tokenAgeHours

\* C5 amended: sortBy 'age' orders by age in hours ascending (the newest token
\* first), 'age_asc' by age in hours descending (the oldest first)
C5_AgeNewestFirst ==
  \A i, j \in DOMAIN finalResult :
    i < j =>
      /\ filters.sortBy = S_age =>
           finalResult[i].tokenAgeHours <= finalResult[j].tokenAgeHours
      /\ filters.sortBy = S_age \o ASC =>
           finalResult[i].tokenAgeHours >= finalResult[j].tokenAgeHours

C5_Witness ==
  /\ filters.sortBy = S_age
  /\ Len(finalResult) = 2
  /\ finalResult[1].tokenAgeHours < finalResult[2].tokenAgeHours
  /\ Reordered

\* C6: a sortBy that names no recognised field gives the order of sortBy 'age'
C6_UnrecognisedAsAge ==
  filters.sortBy \notin Recognised =>
    finalResult = filteredTokens(tokens, [filters EXCEPT !.sortBy = S_age])

\* the active sort key of a token
SortKey(t, sortBy) ==
  CASE sortBy \in {S_holders, S_holders \o ASC} -> t.gpHolderCount
    [] sortBy \in {S_liquidity, S_liquidity \o ASC} -> t.hpLiquidityAmount
    [] sortBy \in {S_safetyScore, S_safetyScore \o ASC} -> RiskOrdinal(t)
    [] OTHER -> t.tokenAgeHours

\* C7: two tokens of the output with equal sort keys are in the relative order
\* they have in the input
C7_StableTies ==
  \A i, j \in DOMAIN finalResult :
    (i < j /\ SortKey(finalResult[i], filters.sortBy) = SortKey(finalResult[j], filters.sortBy))
      => Pos(tokens, finalResult[i]) < Pos(tokens, finalResult[j])

C7_Witness ==
  /\ filters.sortBy = S_liquidity
  /\ Len(finalResult) = 2
  /\ finalResult[1] # finalResult[2]
  /\ finalResult[1].hpLiquidityAmount = finalResult[2].hpLiquidityAmount
  /\ finalResult[1].tokenAgeHours > finalResult[2].tokenAgeHours

\* C8: the output is the first min(maxRecords, n) entries of the output with
\* unlimited maxRecords, n its length
C8_Truncation ==
  LET unlimited == filteredTokens(tokens, [filters EXCEPT !.maxRecords = Len(tokens)])
      n == Len(unlimited)
      k == filters.maxRecords
  IN /\ Len(finalResult) = IF k < n THEN k ELSE n
     /\ \A i \in DOMAIN finalResult : finalResult[i] = unlimited[i]

C8_Witness ==
  /\ filters.maxRecords > 0
  /\ filters.maxRecords < Len(arrayFilter(tokens, filters))
  /\ Len(finalResult) = filters.maxRecords
  /\ Reordered

----------------------------------------------------------------------------
(* The trend of a history as the specification states it: the least-squares *)
(* slope of the metric against the position in time order, in the closed    *)
(* form (n * Sxy - Sx * Sy) / (n * Sxx - Sx * Sx).                          *)

RECURSIVE Sigma(_, _)
Sigma(f, n) == IF n = 0 THEN 0 ELSE f[n] + Sigma(f, n - 1)

\* position 0..n-1 of sample i by ascending timestamp, equal timestamps in the
\* order of arrival
Rank(h, i) ==
  Cardinality({j \in DOMAIN h : \/ h[j].timestamp < h[i].timestamp
                                \/ h[j].timestamp = h[i].timestamp /\ j < i})

Metric(sample, type) ==
  IF type = "liquidity" THEN sample.totalLiquidity ELSE sample.holderCount

LsqNum(h, type) ==
  LET n == Len(h)
  IN n * Sigma([i \in 1..n |-> Rank(h, i) * Metric(h[i], type)], n)
     - Sigma([i \in 1..n |-> Rank(h, i)], n) * Sigma([i \in 1..n |-> Metric(h[i], type)], n)

LsqDen(h) ==
  LET n == Len(h)
      sx == Sigma([i \in 1..n |-> Rank(h, i)], n)
  IN n * Sigma([i \in 1..n |-> Rank(h, i) * Rank(h, i)], n) - sx * sx

\* the last step resolved a fetch
Resolved == settled.kind = "resolved"

\* the history of the response the last step resolved
ResolvedHistory == settled.response.history

\* the Trend Store entry of the token whose fetch the last step resolved
ResolvedTrends == tokenTrends[settled.tokenAddress]

InTimestampOrder(h) == \A i \in 1..(Len(h) - 1) : h[i].timestamp < h[i + 1].timestamp

\* every value exceeds its predecessor by at least step
Rising(h, type, step) ==
  \A i \in 1..(Len(h) - 1) : Metric(h[i + 1], type) - Metric(h[i], type) >= step

Falling(h, type, step) ==
  \A i \in 1..(Len(h) - 1) : Metric(h[i], type) - Metric(h[i + 1], type) >= step

AllEqual(h, type) == \A i, j \in DOMAIN h : Metric(h[i], type) = Metric(h[j], type)

\* C12 as stated: for n >= 2 samples in timestamp order, calculateTrend returns
\* 'up' when the metric values are strictly increasing, 'down' when they are
\* strictly decreasing and 'stagnant' when they are all equal, for both
\* selectors
C12_Monotone ==
  (Resolved /\ Len(ResolvedHistory) >= 2 /\ InTimestampOrder(ResolvedHistory)) =>
    \A type \in {"liquidity", "holders"} :
      /\ Rising(ResolvedHistory, type, 1) => ResolvedTrends[type] = "up"
      /\ Falling(ResolvedHistory, type, 1) => ResolvedTrends[type] = "down"
      /\ AllEqual(ResolvedHistory, type) => ResolvedTrends[type] = "stagnant"

\* C12 amended: for n >= 2 samples in timestamp order, calculateTrend returns
\* 'up' when every value exceeds its predecessor by at least 0.05 (5
\* hundredths), 'down' when every value is below its predecessor by at least
\* 0.05, and 'stagnant' when all values are equal, for both selectors
C12_MonotoneBySteps ==
  (Resolved /\ Len(ResolvedHistory) >= 2 /\ InTimestampOrder(ResolvedHistory)) =>
    \A type \in {"liquidity", "holders"} :
      /\ Rising(ResolvedHistory, type, 5) => ResolvedTrends[type] = "up"
      /\ Falling(ResolvedHistory, type, 5) => ResolvedTrends[type] = "down"
      /\ AllEqual(ResolvedHistory, type) => ResolvedTrends[type] = "stagnant"

\* three samples in timestamp order whose liquidity rises by whole numbers
\* while the holder count falls
C12_Witness ==
  /\ Resolved
  /\ Len(ResolvedHistory) >= 3
  /\ InTimestampOrder(ResolvedHistory)
  /\ Rising(ResolvedHistory, "liquidity", 5)
  /\ Falling(ResolvedHistory, "holders", 5)
  /\ ResolvedTrends.liquidity = "up"
  /\ ResolvedTrends.holders = "down"

DistinctTimestamps(h) ==
  \A i, j \in DOMAIN h : i # j => h[i].timestamp # h[j].timestamp

\* the rearrangements of n positions that are looked at: every permutation
\* of a short sequence, the rotations and the reversal of a longer one
Rearrangements(n) ==
  IF n <= MaxPermuted
  THEN {p \in [1..n -> 1..n] : \A i, j \in 1..n : i # j => p[i] # p[j]}
  ELSE {[i \in 1..n |-> ((i + k) % n) + 1] : k \in 1..n} \cup {[i \in 1..n |-> n + 1 - i]}

Rearranged(h, p) == [i \in DOMAIN h |-> h[p[i]]]

\* C13: for a history with pairwise distinct timestamps calculateTrend returns
\* the same value for every rearrangement of it, and the caller's sequence
\* (the one stored in the History Cache) is still in the order of the response
C13_OrderInvariant ==
  (Resolved /\ DistinctTimestamps(ResolvedHistory)) =>
    /\ \A p \in Rearrangements(Len(ResolvedHistory)) :
         \A type \in {"liquidity", "holders"} :
           calculateTrend(Rearranged(ResolvedHistory, p), type) = ResolvedTrends[type]
    /\ tokenHistories[settled.tokenAddress] = ResolvedHistory

\* a history that arrived out of time order and whose trend is not 'stagnant'
C13_Witness ==
  /\ Resolved
  /\ Len(ResolvedHistory) >= 3
  /\ DistinctTimestamps(ResolvedHistory)
  /\ ~InTimestampOrder(ResolvedHistory)
  /\ ResolvedTrends.liquidity = "up"
  /\ tokenHistories[settled.tokenAddress] = ResolvedHistory

----------------------------------------------------------------------------
(* The History Cache and the fetches as the specification states them *)

\* no fetch has settled yet: the state is the one after construction (every
\* step of LoadSpec settles a fetch, which adds to failed or to the Trend Store)
AtInitialisation == failed = {} /\ DOMAIN tokenTrends = {}

\* the identifiers of the tokens in the visible window
VisibleWindow ==
  {finalResult[index + 1].tokenAddress : index \in {i \in virtualItems : i < Len(finalResult)}}

\* C14: at initialisation the History Cache equals the persisted mapping when
\* now - storedTimestamp < 5 minutes and is empty otherwise; when it starts
\* empty, a fetch is issued for every token identifier of the visible window
C14_LoadOnInit ==
  AtInitialisation =>
    /\ IF storedHistories.kind = "json" /\ now - storedHistories.timestamp < 5 * 60 * 1000
       THEN tokenHistories = storedHistories.data
       ELSE tokenHistories = EmptyMap
    /\ tokenHistories = EmptyMap =>
         /\ issued = VisibleWindow
         /\ \A a \in Addresses : pending[a] = IF a \in VisibleWindow THEN 1 ELSE 0

\* a blob of exactly 5 minutes is discarded and the visible token, which the
\* blob holds a history for, is fetched
C14_Witness ==
  /\ AtInitialisation
  /\ storedHistories.kind = "json"
  /\ now - storedHistories.timestamp = 5 * 60 * 1000
  /\ tokenHistories = EmptyMap
  /\ \E a \in DOMAIN storedHistories.data : a \in issued /\ pending[a] = 1

\* C15: a run of the visibility effect issues a history fetch for X only if X
\* is in the visible window and X is no key of the History Cache at that
\* moment
C15_FetchOnlyVisibleUncached ==
  \A a \in issued : a \in VisibleWindow /\ a \notin DOMAIN tokenHistories

\* a fetch is issued for the visible token while the other listed token, which
\* is cached, gets none
C15_Witness ==
  /\ issued # {}
  /\ \E i \in DOMAIN finalResult :
       /\ finalResult[i].tokenAddress \in DOMAIN tokenHistories
       /\ finalResult[i].tokenAddress \notin issued
  /\ \A a \in issued : pending[a] > 0

\* C16: a step in which the fetch for X fails leaves the History Cache and the
\* Trend Store as they were; a step in which a fetch for Y resolves stores Y's
\* history and trends and changes the entry of no other token, whatever has
\* failed before
C16_FailureIsolated ==
  [][/\ settled'.kind = "failed" =>
          tokenHistories' = tokenHistories /\ tokenTrends' = tokenTrends
     /\ settled'.kind = "resolved" =>
          /\ settled'.tokenAddress \in DOMAIN tokenHistories'
          /\ tokenHistories'[settled'.tokenAddress] = settled'.response.history
          /\ settled'.tokenAddress \in DOMAIN tokenTrends'
          /\ \A b \in Addresses \ {settled'.tokenAddress} :
               /\ b \in DOMAIN tokenHistories' <=> b \in DOMAIN tokenHistories
               /\ b \in DOMAIN tokenHistories => tokenHistories'[b] = tokenHistories[b]
               /\ b \in DOMAIN tokenTrends' <=> b \in DOMAIN tokenTrends
               /\ b \in DOMAIN tokenTrends => tokenTrends'[b] = tokenTrends[b]]_vars

\* the fetch of one token has failed, that token has no entry, and the fetch
\* of another token has just resolved and stored its result
C16_Witness ==
  /\ settled.kind = "resolved"
  /\ tokenHistories[settled.tokenAddress] = settled.response.history
  /\ \E X \in failed :
       /\ X # settled.tokenAddress
       /\ X \notin DOMAIN tokenHistories
       /\ X \notin DOMAIN tokenTrends

\* the step changed a dependency of the visibility effect, so the effect ran
EffectRan ==
  \/ virtualItems' # virtualItems
  \/ filters' # filters
  \/ tokens' # tokens
  \/ tokenHistories' # tokenHistories

\* C17 as stated: once a fetch for X has failed, no step issues a fetch for X
\* and no step leaves X with a History Cache entry
C17_NeverAgain ==
  [][\A X \in failed : X \notin issued' /\ X \notin DOMAIN tokenHistories']_vars

\* C17 amended: the step in which the fetch for X fails issues no fetch, takes
\* X's fetch out of flight and leaves X without the entry it did not have;
\* every later run of the visibility effect issues a fetch for exactly the
\* visible identifiers without a History Cache entry, those that have failed
\* before included
C17_NoRetryOfItsOwn ==
  [][/\ settled'.kind = "failed" =>
          /\ issued' = {}
          /\ pending' = [pending EXCEPT ![settled'.tokenAddress] = @ - 1]
          /\ tokenHistories' = tokenHistories
     /\ (settled'.kind # "failed" /\ EffectRan) =>
          /\ issued' = {X \in VisibleWindow' : X \notin DOMAIN tokenHistories'}
          /\ \A X \in failed :
               (X \in VisibleWindow' /\ X \notin DOMAIN tokenHistories') => X \in issued']_vars

\* the fetch for X has failed, no fetch for X was left in flight, and a later
\* run of the visibility effect has issued a new one
C17_Witness ==
  \E X \in failed :
    /\ X \in issued
    /\ pending[X] = 1
    /\ X \notin DOMAIN tokenHistories
    /\ settled.kind # "failed"

\* C18: every key of the History Cache, whether it came from a resolved fetch
\* or from the persisted blob loaded at initialisation, is a key of the Trend
\* Store, and its entry holds calculateTrend of the cached history for both
\* selectors
C18_TrendForEveryHistory ==
  \A X \in DOMAIN tokenHistories :
    /\ X \in DOMAIN tokenTrends
    /\ tokenTrends[X].liquidity = calculateTrend(tokenHistories[X], "liquidity")
    /\ tokenTrends[X].holders = calculateTrend(tokenHistories[X], "holders")

----------------------------------------------------------------------------
(* Row heights and scrolling as the specification states them *)

\* the token at index of the filtered sequence is in ExpansionState
ExpandedAt(index) ==
  index < Len(finalResult) /\ finalResult[index + 1].tokenAddress \in expandedTokens

\* C19: estimateSize(index) is 42 for an index with no token; otherwise it is
\* the measured height stored for the index whenever MeasuredHeights has an
\* entry for it, whatever the stored value, 0 included; otherwise 800 if the
\* token at the index is in ExpansionState and 42 if it is not.  The sizes
\* the virtualizer holds are these values.
C19_EstimateSize ==
  /\ \A index \in 0..Len(tokens) :
       estimateSize(index) =
         IF index >= Len(finalResult) THEN 42
         ELSE IF index \in DOMAIN measuredHeights THEN measuredHeights[index]
         ELSE IF ExpandedAt(index) THEN 800 ELSE 42
  /\ \A index \in DOMAIN itemSizes : itemSizes[index] = estimateSize(index)

\* C20: a step that changes FilterState (a toggle, a threshold, the search
\* query or the sort) ends with MeasuredHeights empty and the scroll offset
\* at 0
C20_UpdateResetsLayout ==
  [][filters' # filters => (measuredHeights' = EmptyMap /\ scrollTop' = 0)]_vars

\* the 'warning' toggle was set after a measurement taken at a scroll offset
\* other than 0, whose scroll restore still waits for the next paint
C20_Witness ==
  /\ filters.hideWarning
  /\ measuredHeights = EmptyMap
  /\ scrollTop = 0
  /\ expandedTokens # {}
  /\ \E i \in DOMAIN rafQueue :
       rafQueue[i].kind = "restoreScroll" /\ rafQueue[i].scroll # 0

----------------------------------------------------------------------------
(* The props-driven variant: the list of part_000 reads props.filters, the   *)
(* status bar of part_001 holds the filter controls.  Each control calls    *)
(* props.onUpdateFilters, the parent's handler, with an updater; the        *)
(* updateFilters of part_000 is called by nothing.                          *)

\* the parent replaces props.filters by the updater's result: in the list
\* the memo is recomputed and the virtualizer is created anew at the current
\* offset; the measuredHeights signal and the scroll container, local to the
\* list, are written by nothing, and neither file writes the blob on this
\* path
onUpdateFilters(updated) ==
  /\ rendered
  /\ filters' = updated
  /\ UNCHANGED storedFilters
  /\ finalResult' = filteredTokens(tokens, updated)
  /\ \E first \in FirstRows(Len(finalResult')) :
       /\ scrollTop = 0 => first = 0
       /\ virtualItems' = rowsFrom(first, viewportRows, Len(finalResult'))
  /\ itemSizes' = estimatedSizes(finalResult', measuredHeights, expandedTokens)
  /\ UNCHANGED tokenHistories
  /\ visibilityEffect
  /\ settled' = NoSettle
  /\ UNCHANGED <<tokens, expandedTokens, measuredHeights, scrollTop, viewportRows,
                 storedHistories, registrations, now, stats, tokenTrends, failed, rafQueue>>

StatusSearchInput == \E q \in Queries : onUpdateFilters([filters EXCEPT !.searchQuery = q])

\* two of the options of the select
StatusSortChange == \E s \in {S_age, S_holders} : onUpdateFilters([filters EXCEPT !.sortBy = s])

StatusHideHoneypotsChange ==
  \E checked \in BOOLEAN : onUpdateFilters([filters EXCEPT !.hideHoneypots = checked])

StatusHideWarningChange ==
  \E checked \in BOOLEAN : onUpdateFilters([filters EXCEPT !.hideWarning = checked])

StatusHideDangerChange ==
  \E checked \in BOOLEAN : onUpdateFilters([filters EXCEPT !.hideDanger = checked])

StatusMinHoldersInput ==
  \E n \in ThresholdInputs : onUpdateFilters([filters EXCEPT !.minHolders = n])

StatusMinLiquidityInput ==
  \E n \in ThresholdInputs : onUpdateFilters([filters EXCEPT !.minLiquidity = n])

(* PropsSpec: the variant with two rows shown and no fetch issued; rows are  *)
(* measured, the user scrolls and uses the controls of the status bar.      *)

PropsNext ==
  \/ ResizeObserved
  \/ Scroll
  \/ StatusSearchInput
  \/ StatusSortChange
  \/ StatusHideHoneypotsChange
  \/ StatusHideWarningChange
  \/ StatusHideDangerChange
  \/ StatusMinHoldersInput
  \/ StatusMinLiquidityInput

PropsSpec == LayoutInit /\ [][PropsNext]_vars

----------------------------------------------------------------------------
(* C21 *)

\* the measured height stored for index, when estimateSize would return it
StoredHeight(heights, index) ==
  IF has(heights, index) /\ heights[index] # 0 THEN <<heights[index]>> ELSE <<>>

\* C21: whenever a step changes the filtered sequence (a filter update or a
\* token refresh), no height measured for an index under the old sequence is
\* still the stored height of that index when another token is there under
\* the new sequence.
C21_InvalidatedOnSequenceChange ==
  [][finalResult' # finalResult =>
       \A index \in DOMAIN measuredHeights :
         (/\ tokenAt(finalResult', index) # <<>>
          /\ tokenAt(finalResult', index) # tokenAt(finalResult, index)
          /\ StoredHeight(measuredHeights, index) # <<>>)
         => /\ StoredHeight(measuredHeights', index) # StoredHeight(measuredHeights, index)
            /\ estimateSizeOf(finalResult', measuredHeights', expandedTokens', index)
                 \in {COLLAPSED_HEIGHT, EXPANDED_HEIGHT}]_vars

----------------------------------------------------------------------------
(* C22 *)

\* C22: in the props-driven variant no step changes the FilterState while it
\* leaves measured heights in place or the scroll offset away from the top.
C22_SingleEntryPoint ==
  [][filters' # filters => measuredHeights' = EmptyMap /\ scrollTop' = 0]_vars

----------------------------------------------------------------------------
(* C23 *)

\* C23: after every step that changes the FilterState the persisted item is
\* a JSON text, and getSavedFilters applied to it returns the FilterState the
\* step left in memory.
C23_WriteThenLoad ==
  [][filters' # filters =>
       /\ storedFilters'.kind = "json"
       /\ getSavedFilters(storedFilters') = filters']_vars

\* reached: after updates of a string, a number and a boolean member the blob
\* parses to the FilterState in memory, the default maxRecords among its
\* numbers
C23_Witness ==
  /\ filters.sortBy = S_holders \o ASC
  /\ filters.minHolders = MinThreshold
  /\ filters.hideHoneypots
  /\ filters.maxRecords = DefaultMaxRecords
  /\ storedFilters = JsonItem(filters)
  /\ storedFilters.text.maxRecords = <<"5", "0">>
  /\ getSavedFilters(storedFilters) = filters

----------------------------------------------------------------------------
(* C24, C25 *)

\* the addresses whose membership in the expansion set a step changes
Flipped == (expandedTokens' \ expandedTokens) \cup (expandedTokens \ expandedTokens')

\* C24: a step that toggles the expansion of the token at index i of the
\* filtered sequence leaves no measured height for i, keeps every other
\* entry of the measured heights as it was, has the virtualizer take its
\* sizes anew, and adds one callback to those of the next paint, the
\* scroll-to-index call for i aligned at start.  (LayoutSpec has no other
\* step that changes the expansion set.)
C24_ToggleFrame ==
  [][expandedTokens' # expandedTokens =>
       \E X \in Flipped :
         LET i == findIndex(finalResult, X)
         IN /\ Flipped = {X}
            /\ i >= 0
            /\ ~has(measuredHeights', i)
            /\ DOMAIN measuredHeights' = DOMAIN measuredHeights \ {i}
            /\ \A j \in DOMAIN measuredHeights' : measuredHeights'[j] = measuredHeights[j]
            /\ itemSizes' = estimatedSizes(finalResult', measuredHeights', expandedTokens')
            /\ rafQueue' = Append(rafQueue, [kind |-> "scrollToIndex", index |-> i,
                                             align |-> "start", tokenAddress |-> X])]_vars

\* reached: the row of index 1 was toggled open while a height was stored for
\* index 0
C24_Witness ==
  /\ Len(finalResult) = 2
  /\ finalResult[2].tokenAddress \in expandedTokens
  /\ finalResult[1].tokenAddress \notin expandedTokens
  /\ has(measuredHeights, 0) /\ measuredHeights[0] = 100
  /\ ~has(measuredHeights, 1)
  /\ itemSizes[1] = EXPANDED_HEIGHT
  /\ rafQueue = <<ScrollToIndex(1, finalResult[2].tokenAddress)>>

\* a step that defers a scroll-to-index call: a click on a row
ClickDeferred ==
  /\ Len(rafQueue') = Len(rafQueue) + 1
  /\ rafQueue'[Len(rafQueue')].kind = "scrollToIndex"

\* the address of the row the deferred call targets
Clicked == finalResult[rafQueue'[Len(rafQueue')].index + 1].tokenAddress

\* C25: a click on the row of X flips the membership of X in the expansion
\* set and of no other address, and a second toggle of X gives back the set
\* that held before the click.
C25_ToggleInvolution ==
  [][ClickDeferred =>
       /\ (Clicked \in expandedTokens') # (Clicked \in expandedTokens)
       /\ expandedTokens' \ {Clicked} = expandedTokens \ {Clicked}
       /\ toggled(expandedTokens', Clicked) = expandedTokens]_vars

\* reached: one row expanded, the other toggled open and closed again
C25_Witness ==
  /\ Len(finalResult) = 2
  /\ expandedTokens = {finalResult[1].tokenAddress}
  /\ rafQueue = <<ScrollToIndex(1, finalResult[2].tokenAddress),
                  ScrollToIndex(1, finalResult[2].tokenAddress)>>

----------------------------------------------------------------------------
(* C26 *)

\* a step of the expand-all / collapse-all button: the expansion set changes
\* and no scroll-to-index call is deferred
BulkStep == expandedTokens' # expandedTokens /\ rafQueue' = rafQueue

\* the identifiers of the filtered sequence
FilteredAddresses == {finalResult[i].tokenAddress : i \in DOMAIN finalResult}

\* C26: the bulk operation empties the expansion set if at least one token of
\* the filtered sequence is expanded, and sets it to the identifiers of the
\* filtered sequence otherwise.
C26_BulkToggle ==
  [][BulkStep =>
       expandedTokens' = IF FilteredAddresses \cap expandedTokens # {} THEN {}
                         ELSE FilteredAddresses]_vars

\* reached: both listed tokens expanded by the button, no row measured
C26_Witness ==
  /\ Len(finalResult) = 2
  /\ expandedTokens = FilteredAddresses
  /\ measuredHeights = EmptyMap
  /\ itemSizes = [index \in 0..1 |-> EXPANDED_HEIGHT]
  /\ rafQueue = <<>>

----------------------------------------------------------------------------
(* C27 *)

\* a step that defers a scroll restore
RestoreDeferred ==
  /\ Len(rafQueue') = Len(rafQueue) + 1
  /\ rafQueue'[Len(rafQueue')].kind = "restoreScroll"

\* a step of the resize listener: a scroll restore is deferred and no height
\* is reported for any index (the size observer, the other step that defers
\* a restore, stores a height that was not there)
ResizeStep ==
  /\ RestoreDeferred
  /\ \A j \in DOMAIN measuredHeights' :
       has(measuredHeights, j) /\ measuredHeights'[j] = measuredHeights[j]

\* C27: a viewport resize leaves no measured height, has the virtualizer take
\* its sizes anew, and changes neither the FilterState, the expansion set,
\* the History Cache nor the Trend Store.
C27_ResizeFrame ==
  [][ResizeStep =>
       /\ measuredHeights' = EmptyMap
       /\ itemSizes' = estimatedSizes(finalResult', EmptyMap, expandedTokens')
       /\ UNCHANGED <<filters, expandedTokens, tokenHistories, tokenTrends>>]_vars

\* reached: after a height was measured at offset 0 the list was scrolled and
\* the window resized, with a row expanded and histories cached
C27_Witness ==
  /\ rafQueue = <<RestoreScroll(0), RestoreScroll(1)>>
  /\ scrollTop = 1
  /\ measuredHeights = EmptyMap
  /\ expandedTokens # {}
  /\ filters.hideWarning
  /\ tokenHistories # EmptyMap

----------------------------------------------------------------------------
(* C28 *)

\* a step that changes a row height the list knows of, the FilterState
\* staying as it is: a reported measurement, a resize, a toggle, the bulk
\* button
HeightAffecting ==
  /\ filters' = filters
  /\ finalResult' = finalResult
  /\ measuredHeights' # measuredHeights \/ expandedTokens' # expandedTokens

\* C28: every height-affecting step has the virtualizer take its sizes anew
\* after the mutation and defers to the next paint one callback, which
\* restores the scroll offset the step found.
C28_RemeasureProtocol ==
  [][HeightAffecting =>
       /\ itemSizes' = estimatedSizes(finalResult', measuredHeights', expandedTokens')
       /\ rafQueue' = Append(rafQueue, RestoreScroll(scrollTop))]_vars

----------------------------------------------------------------------------
(* C29 *)

\* C29: once the list view is torn down the size observer is disconnected
\* and the resize listener removed, and no later step reports a measurement
\* or handles a resize: the measured heights and the sizes of the virtualizer
\* stay as they are and no callback is deferred.
C29_NothingAfterTeardown ==
  [][(~rendered /\ ~rendered') =>
       /\ ~observing /\ ~listening
       /\ measuredHeights' = measuredHeights
       /\ itemSizes' = itemSizes
       /\ Len(rafQueue') <= Len(rafQueue)]_vars

----------------------------------------------------------------------------
(* C30 *)

\* C30: at initialisation a persisted filter item that holds no FilterState
\* gives the default FilterState, a persisted history item that is no JSON
\* or lacks a usable timestamp or data gives an empty History Cache, and in
\* every case the list is constructed with a complete FilterState.
C30_MalformedBlobsYieldDefaults ==
  AtInitialisation =>
    /\ storedFilters.kind \in {"malformed", "null"} => filters = DefaultFilters
    /\ storedHistories.kind \in {"malformed", "noTimestamp", "noData"} =>
         tokenHistories = EmptyMap
    /\ DOMAIN filters = DOMAIN DefaultFilters
    /\ rendered

----------------------------------------------------------------------------
(* Claims about one session, under SessionSpec *)

\* C31: no step removes a key of the History Cache: a token that is a key of
\* it before a step is a key after it, whichever step it is (a filter update,
\* a token refresh, a click, the bulk button, a resize, a paint, a scroll or
\* the resolution of a fetch).
C31_EntriesKept ==
  [][DOMAIN tokenHistories \subseteq DOMAIN tokenHistories']_vars

\* reached: the history of the 'warning' token was fetched, the token is then
\* hidden by the filter, a row is expanded and the history of another token
\* was fetched after it
C31_Witness ==
  /\ storedHistories = NoHistoryItem
  /\ DOMAIN tokenHistories = {T1.tokenAddress, T3.tokenAddress}
  /\ filters.hideWarning
  /\ T3.tokenAddress \notin FilteredAddresses
  /\ expandedTokens # {}
  /\ settled.kind = "resolved" /\ settled.tokenAddress = T1.tokenAddress

----------------------------------------------------------------------------
(* Claims about the two stores while fetches settle, under HistorySpec *)

\* C32: every key of the Trend Store is a key of the History Cache, and its
\* entry is the pair of calculateTrend of the cached history for liquidity
\* and for holders, in every reachable state: whichever fetches have resolved
\* in whichever order, also for a token that is no longer listed or shown.
C32_TrendsOfCachedHistory ==
  \A X \in DOMAIN tokenTrends :
    /\ has(tokenHistories, X)
    /\ tokenTrends[X] = [liquidity |-> calculateTrend(tokenHistories[X], S_liquidity_type),
                         holders |-> calculateTrend(tokenHistories[X], S_holders_type)]

\* reached: both tokens have trends; the last fetch resolved for the 'warning'
\* token while the filter hides it, with a falling history, and a second fetch
\* for it is still in flight
C32_Witness ==
  /\ DOMAIN tokenTrends = {T1.tokenAddress, T3.tokenAddress}
  /\ filters.hideWarning
  /\ settled.kind = "resolved"
  /\ settled.tokenAddress = T3.tokenAddress
  /\ settled.response.history = FallingHistory
  /\ tokenTrends[T3.tokenAddress] # tokenTrends[T1.tokenAddress]
  /\ pending[T3.tokenAddress] > 0


\* C33: in every reachable state at most one history fetch is in flight for
\* each token identifier.
C33_OneFetchPerToken == \A a \in Addresses : pending[a] <= 1

----------------------------------------------------------------------------
(* Claims about the deferred callbacks, under LayoutSpec *)

\* a step in which the deferred callbacks run
FrameRuns == rafQueue # <<>> /\ rafQueue' = <<>>

\* C34: when a deferred scroll-to-index call scheduled by a toggle of X runs,
\* its index is the index of X in the filtered sequence of that moment, and
\* lies within the sequence.
C34_TargetsCurrentIndex ==
  [][FrameRuns =>
       \A k \in DOMAIN rafQueue :
         rafQueue[k].kind = "scrollToIndex" =>
           /\ rafQueue[k].index = findIndex(finalResult, rafQueue[k].tokenAddress)
           /\ rafQueue[k].index < Len(finalResult)]_vars


\* C35: a filter update sets the scroll offset to 0, and the callbacks that
\* are pending at that moment, all scheduled before the update, leave the
\* offset at 0 when they run at the next paint.
C35_ResetNotUndone ==
  [][filters' # filters =>
       /\ scrollTop' = 0
       /\ offsetAfter(rafQueue', scrollTop') = 0]_vars


\* C36: in every reachable state the expansion set holds only identifiers of
\* tokens of the filtered sequence, and the expanded count reported to the
\* parent does not exceed the filtered count reported with it.
C36_ExpandedWithinFiltered ==
  /\ expandedTokens \subseteq FilteredAddresses
  /\ stats # NoStats => stats.expanded <= stats.filtered

----------------------------------------------------------------------------
(* Claims about the bulk button, under ViewSpec *)

\* C37: in every reachable state the bulk button reads 'Collapse All' exactly
\* if pressing it would empty the expansion set, that is if a token of the
\* filtered sequence is expanded, and 'Expand All' exactly if pressing it
\* would set the expansion set to the identifiers of the filtered sequence.
C37_LabelAgrees ==
  /\ bulkLabel(expandedTokens) = "Collapse All" <=> hasExpanded(finalResult, expandedTokens)
  /\ bulkLabel(expandedTokens) = "Expand All" <=> ~hasExpanded(finalResult, expandedTokens)

----------------------------------------------------------------------------
(* C38, under SessionSpec *)

\* C38: in every reachable state the last arguments of props.onStatsChange
\* are the length of the filtered sequence and the size of the expansion set.
C38_LastStats ==
  stats = [filtered |-> Len(finalResult), expanded |-> Cardinality(expandedTokens)]

\* reached: two tokens were expanded, then a filter update left one token in
\* the sequence
C38_Witness ==
  /\ filters.hideWarning
  /\ stats.filtered = 1
  /\ stats.expanded = 2


\* C39: a step of the bulk button leaves the measured heights, the scroll
\* offset, the FilterState, the History Cache and the Trend Store as they
\* were and defers no callback, and after it estimateSize(i) is the height
\* measured before it, for every index i that had a measurement.
C39_BulkChangesExpansionOnly ==
  [][BulkStep =>
       /\ measuredHeights' = measuredHeights
       /\ scrollTop' = scrollTop
       /\ filters' = filters
       /\ tokenHistories' = tokenHistories
       /\ tokenTrends' = tokenTrends
       /\ rafQueue' = rafQueue
       /\ \A i \in DOMAIN measuredHeights :
            estimateSizeOf(finalResult', measuredHeights', expandedTokens', i)
              = measuredHeights[i]]_vars

====
